---- MODULE Spec2Model ----
(***************************************************************************)
(* Reallocation decision engine of colloseum_monorepo (core/src).          *)
(*                                                                         *)
(*   - Evaluator.initialize_vault_info : ledger reconciliation             *)
(*   - Evaluator.calculate_utilization / evaluate_portfolio /              *)
(*     check_liquidity / process_reallocation / run_reallocation_flow      *)
(*   - Optimizer._get_adaptor_constraints / _apply_adaptor_constraints     *)
(*   - Optimizer.update_vault / update_allocation / update_market_data /   *)
(*     _prepare_returns / handle_market_data / handle_vault_update /       *)
(*     initialize_vault_info                                               *)
(*   - EventHandler: Observer callbacks, observables, handler closures,    *)
(*     OptimizerInterface, EvaluatorInterface, MessageBroker               *)
(*   - Observable.subscribe / unsubscribe / notify                         *)
(*   - MessageBroker.start / stop / publish and its worker threads         *)
(*   - Observer.start / stop and the realtime channels                     *)
(*                                                                         *)
(* Amounts are integers and every quotient the code forms is kept as an    *)
(* exact fraction <<n, d>> in lowest terms with d > 0 (the code uses       *)
(* binary floating point; the values chosen below are compared by the      *)
(* code exactly as the fractions compare).                                 *)
(***************************************************************************)
EXTENDS Integers, Sequences, FiniteSets, TLC

VARIABLES
    supabase_client,     \* Evaluator.supabase_client is set (TRUE) or None (FALSE)
    abs_vault_info,      \* rows of table abs_vault_info: the vault ids that have a record
    ledger,              \* rows of table abs_vault_allocation_history, in delivery order
    vaults,              \* Evaluator.vaults: pool_id -> [vault_info, current_allocation]
    flow_call,           \* the run_reallocation_flow call being handled, with its arguments
    flow_result,         \* what that call returns to its caller
    published,           \* topics handed to publish_zmq_message during that call
    opt_input,           \* Optimizer: the vault_info and the solver's weights being processed
    opt_weights,         \* Optimizer: the outcome of the constraint steps for opt_input
    zmq_publisher,       \* Evaluator.zmq_publisher: "none", or a socket that is "ok" or "failing"
    sink,                \* topics of the messages the socket sent during that call
    opt_vaults,          \* Optimizer.vaults, in insertion order: [pool_id, vault_info, current_allocation]
    market_data,         \* Optimizer.market_data: str(pool_id) -> the rows of the frame
    opt_call,            \* the Optimizer call being handled, with its arguments
    opt_result,          \* what that call returns to its caller, or that it raised
    eh_services,         \* EventHandler: the optimizer and evaluator services, zmq enabled or not
    observer,            \* "none", or "started" once EventHandler.setup has run
    inbox,               \* records inserted into the tables and not yet handed to an observable
    received,            \* how many records have been inserted since setup
    handlers,            \* the handler closures in progress: event, stage (pc), values so far
    last_notified,       \* the record last handed to an observable and the events it notified
    last_finished,       \* the handler that ended last, and how it ended
    processing_queue,    \* MessageBroker.processing_queue
    broker_sent,         \* the last message the broker's worker sent through ZeroMQ
    observable,          \* an Observable: _observers, and the call made last
    broker,              \* a MessageBroker: is_running, its queue, its worker threads, the
                         \* messages processed, the number published when it last started
    realtime             \* an Observer: is_running, channels, the channel objects that are
                         \* subscribed, the number of starts, the call made last

evaluator_vars == <<zmq_publisher, sink>>
cascade_vars == <<opt_vaults, market_data, opt_call, opt_result>>
component_vars == <<observable, broker, realtime>>
event_vars == <<eh_services, observer, inbox, received, handlers, last_notified,
                last_finished, processing_queue, broker_sent, component_vars>>

vars == <<supabase_client, abs_vault_info, ledger, vaults, flow_call, flow_result,
          published, opt_input, opt_weights, evaluator_vars, cascade_vars, event_vars>>

-----------------------------------------------------------------------------
(* Bounds and input domains *)

MaxLedger == 3

VaultIds == {1, 2}
\* int(pool_id) succeeds on the vault ids 1 and 2 (1, '2'); vault id 3 stands for an
\* id such as 'vault_3', on which int() raises ValueError
IntParses(pool_id) == pool_id \in VaultIds
Assets == {28, 29, 1071}
LedgerAssets == {28, 29}
LedgerAmounts == {-1, 0, 1}
\* pd.NaT, the parsed value of a created_at that does not parse (no timestamp is 0)
NaT == 0
Timestamps == {1, 2}

EmptyAllocation == [a \in {} |-> 0]

\* Optimizer.market_data is a dict of frames: under str(pool_id), the rows received
\* for the pool in arrival order. The apy of a row is a finite number ("num"), an
\* infinity ("inf") or a value that is not a number ("text").
NoMarketData == [k \in {} |-> <<>>]
\* the rows a frame of market_data holds at most
MaxRows == 2

\* no EventHandler has been constructed
\* Observable.__init__ (no observers), MessageBroker.__init__ (not running, empty
\* queue, no worker thread), Observer.__init__ (not running, no channels)
NoComponents ==
    /\ observable = [_observers |-> [e \in {} |-> <<>>], call |-> [op |-> "none"]]
    /\ broker = [zmq |-> "disabled", is_running |-> FALSE, processing_queue |-> <<>>,
                 workers |-> <<>>, worker_thread |-> 0, joining |-> FALSE,
                 published |-> 0, started_at |-> 0, log |-> <<>>, call |-> "none"]
    /\ realtime = [is_running |-> FALSE, starts |-> 0, channels |-> <<>>,
                   subscribed |-> {}, call |-> [op |-> "none"]]

NoEventHandler ==
    /\ NoComponents
    /\ eh_services = [optimizer_service |-> "None", evaluator_service |-> "None",
                      zmq_enabled |-> FALSE]
    /\ observer = "none"
    /\ inbox = <<>>
    /\ received = 0
    /\ handlers = <<>>
    /\ last_notified = [table |-> "none"]
    /\ last_finished = [pc |-> "none"]
    /\ processing_queue = <<>>
    /\ broker_sent = [topic |-> "none"]

\* rows of vault 1 with a parsed timestamp, one row of vault 2, and one row of
\* vault 1 whose created_at does not parse
LedgerEntries ==
    [pool_id : {1}, allocated_pool_id : LedgerAssets,
     amount : LedgerAmounts, created_at_parsed : Timestamps]
    \cup {[pool_id |-> 2, allocated_pool_id |-> 28, amount |-> 1, created_at_parsed |-> 2],
          [pool_id |-> 1, allocated_pool_id |-> 29, amount |-> 1, created_at_parsed |-> NaT]}

-----------------------------------------------------------------------------
(* Exact fractions *)

Abs(x) == IF x < 0 THEN -x ELSE x

RECURSIVE Gcd(_, _)
Gcd(a, b) == IF b = 0 THEN a ELSE Gcd(b, a % b)

Frac(n, d) ==
    LET s == IF d < 0 THEN -1 ELSE 1
        g == Gcd(Abs(n), Abs(d))
    IN  <<(s * n) \div g, (s * d) \div g>>

FInt(n) == <<n, 1>>
FAdd(x, y) == Frac(x[1] * y[2] + y[1] * x[2], x[2] * y[2])
FSub(x, y) == Frac(x[1] * y[2] - y[1] * x[2], x[2] * y[2])
FMul(x, y) == Frac(x[1] * y[1], x[2] * y[2])
FDiv(x, y) == Frac(x[1] * y[2], x[2] * y[1])
FLe(x, y) == x[1] * y[2] <= y[1] * x[2]
FLt(x, y) == x[1] * y[2] < y[1] * x[2]
FMax(x, y) == IF FLe(x, y) THEN y ELSE x

-----------------------------------------------------------------------------
(* Evaluator.initialize_vault_info: reconciliation of one vault's ledger *)

\* alloc_df.dropna(subset=['created_at_parsed'])
DropInvalidTimestamps(rows) == SelectSeq(rows, LAMBDA e : e.created_at_parsed # NaT)

\* alloc_df[alloc_df['pool_id'] == int(pool_id)]
VaultAllocations(rows, pool_id) == SelectSeq(rows, LAMBDA e : e.pool_id = pool_id)

RECURSIVE InsertDesc(_, _)
InsertDesc(e, sorted) ==
    IF sorted = <<>> THEN <<e>>
    ELSE IF Head(sorted).created_at_parsed >= e.created_at_parsed
         THEN <<Head(sorted)>> \o InsertDesc(e, Tail(sorted))
         ELSE <<e>> \o sorted

\* the rows left in the order in which they were delivered
SortArrival(rows) == rows

\* vault_allocations.sort_values('created_at_parsed', ascending=False)
RECURSIVE SortDescending(_)
SortDescending(rows) ==
    IF rows = <<>> THEN <<>>
    ELSE InsertDesc(rows[Len(rows)], SortDescending(SubSeq(rows, 1, Len(rows) - 1)))

\* vault_allocations['created_at_parsed'].unique(): first appearances, in row order
RECURSIVE UniqueTimestamps(_)
UniqueTimestamps(rows) ==
    IF rows = <<>> THEN <<>>
    ELSE LET before == UniqueTimestamps(SubSeq(rows, 1, Len(rows) - 1))
             ts == rows[Len(rows)].created_at_parsed
         IN  IF \E i \in 1..Len(before) : before[i] = ts THEN before
             ELSE Append(before, ts)

\* vault_allocations[vault_allocations['created_at_parsed'] == ts]
TsAllocations(rows, ts) == SelectSeq(rows, LAMBDA e : e.created_at_parsed = ts)

\* a group that merely holds no negative amount
AllNonNegative(rows) == \A i \in 1..Len(rows) : rows[i].amount >= 0

\* (ts_allocations['amount'] > 0).all()
AllPositive(rows) == \A i \in 1..Len(rows) : rows[i].amount > 0

RECURSIVE SumAmounts(_, _)
SumAmounts(rows, asset) ==
    IF rows = <<>> THEN 0
    ELSE (IF Head(rows).allocated_pool_id = asset THEN Head(rows).amount ELSE 0)
         + SumAmounts(Tail(rows), asset)

RowAssets(rows) == {rows[i].allocated_pool_id : i \in 1..Len(rows)}

\* the loop over ts_allocations.iterrows() that accumulates current_allocation
SnapshotAllocation(rows) == [a \in RowAssets(rows) |-> SumAmounts(rows, a)]

\* the sums with the assets of total 0 kept
CumulativeAllocationNonNegative(rows) ==
    [a \in {b \in RowAssets(rows) : SumAmounts(rows, b) >= 0} |-> SumAmounts(rows, a)]

\* groupby('allocated_pool_id')['amount'].sum(), keeping amount > 0
CumulativeAllocation(rows) ==
    [a \in {b \in RowAssets(rows) : SumAmounts(rows, b) > 0} |-> SumAmounts(rows, a)]

\* index of the first timestamp, in scan order, whose group is all-positive (0: none)
RECURSIVE FirstComplete(_, _, _)
FirstComplete(rows, timestamps, i) ==
    IF i > Len(timestamps) THEN 0
    ELSE IF AllPositive(TsAllocations(rows, timestamps[i])) THEN i
         ELSE FirstComplete(rows, timestamps, i + 1)

\* body of the per-vault loop for a non-empty vault_allocations frame
ReconcileRows(vault_allocations) ==
    LET sorted == SortDescending(vault_allocations)
        timestamps == UniqueTimestamps(sorted)
        found == FirstComplete(sorted, timestamps, 1)
    IN  IF found # 0
        THEN SnapshotAllocation(TsAllocations(sorted, timestamps[found]))
        ELSE CumulativeAllocation(sorted)

\* the vault's current_allocation after the per-vault loop body
Reconcile(rows, pool_id, previous) ==
    IF ~IntParses(pool_id) THEN previous
    ELSE LET vault_allocations == VaultAllocations(DropInvalidTimestamps(rows), pool_id)
         IN  IF vault_allocations = <<>> THEN previous
             ELSE ReconcileRows(vault_allocations)

\* Evaluator.update_vault applied to the registry
UpdateVaultIn(reg, vault_info) ==
    LET pool_id == vault_info.pool_id
    IN  IF pool_id \in DOMAIN reg
        THEN [reg EXCEPT ![pool_id].vault_info = vault_info]
        ELSE [v \in DOMAIN reg \cup {pool_id} |->
                 IF v = pool_id
                 THEN [vault_info |-> vault_info, current_allocation |-> EmptyAllocation]
                 ELSE reg[v]]

VaultInfoOf(pool_id) == [pool_id |-> pool_id, strategy |-> "min_risk"]

RECURSIVE UpdateVaultsFrom(_, _)
UpdateVaultsFrom(reg, ids) ==
    IF ids = {} THEN reg
    ELSE LET v == CHOOSE x \in ids : \A y \in ids : x <= y
         IN  UpdateVaultsFrom(UpdateVaultIn(reg, VaultInfoOf(v)), ids \ {v})

-----------------------------------------------------------------------------
(* Actions on the tables and the registry *)

\* a row arrives in abs_vault_allocation_history; the query returns rows in any order
LedgerInsert(e, pos) ==
    /\ Len(ledger) < MaxLedger
    /\ ledger' = SubSeq(ledger, 1, pos) \o <<e>> \o SubSeq(ledger, pos + 1, Len(ledger))
    /\ UNCHANGED <<supabase_client, abs_vault_info, vaults, flow_call, flow_result,
                   published, opt_input, opt_weights,
                   evaluator_vars, cascade_vars, event_vars>>

InitializeVaultInfo ==
    /\ IF ~supabase_client \/ abs_vault_info = {}
       THEN UNCHANGED vaults
       ELSE LET registered == UpdateVaultsFrom(vaults, abs_vault_info)
            IN  IF ledger = <<>>
                THEN vaults' = registered
                ELSE vaults' =
                       [v \in DOMAIN registered |->
                          [registered[v] EXCEPT !.current_allocation =
                              Reconcile(ledger, v, registered[v].current_allocation)]]
    /\ UNCHANGED <<supabase_client, abs_vault_info, ledger, flow_call, flow_result,
                   published, opt_input, opt_weights,
                   evaluator_vars, cascade_vars, event_vars>>

-----------------------------------------------------------------------------
(* Evaluator: utilization, decision gate, actions *)

\* Evaluator.__init__: reallocation_threshold=0.05
reallocation_threshold == <<1, 20>>

\* float('inf')
Inf == <<1, 0>>

\* dict.get(pool_id, 0.0)
AmountOf(allocation, pool_id) ==
    IF pool_id \in DOMAIN allocation THEN allocation[pool_id] ELSE 0

\* set(list(current_allocation.keys()) + list(target_allocation.keys()))
UnionIds(current_allocation, target_allocation) ==
    DOMAIN current_allocation \cup DOMAIN target_allocation

\* the ids of a set as a list (the code iterates the set in hash order; ascending here)
RECURSIVE IdList(_)
IdList(ids) ==
    IF ids = {} THEN <<>>
    ELSE LET m == CHOOSE x \in ids : \A y \in ids : x <= y
         IN  <<m>> \o IdList(ids \ {m})

RECURSIVE InsertAsc(_, _)
InsertAsc(x, sorted) ==
    IF sorted = <<>> THEN <<x>>
    ELSE IF FLe(Head(sorted), x) THEN <<Head(sorted)>> \o InsertAsc(x, Tail(sorted))
         ELSE <<x>> \o sorted

RECURSIVE SortAsc(_)
SortAsc(values) ==
    IF values = <<>> THEN <<>> ELSE InsertAsc(Head(values), SortAsc(Tail(values)))

\* np.median of a non-empty list
Median(values) ==
    LET sorted == SortAsc(values)
        n == Len(sorted)
    IN  IF n % 2 = 1 THEN sorted[(n + 1) \div 2]
        ELSE FDiv(FAdd(sorted[n \div 2], sorted[n \div 2 + 1]), FInt(2))

\* the per-asset utilization computed in the loop of calculate_utilization
AssetUtilization(current_amount, target_amount) ==
    IF target_amount = 0
    THEN IF current_amount = 0 THEN FInt(0) ELSE Inf
    ELSE Frac(current_amount, target_amount)

\* utilization_values: only the branch with target_amount != 0 appends
RECURSIVE UtilizationValues(_, _, _)
UtilizationValues(ids, current_allocation, target_allocation) ==
    IF ids = <<>> THEN <<>>
    ELSE LET c == AmountOf(current_allocation, Head(ids))
             t == AmountOf(target_allocation, Head(ids))
             rest == UtilizationValues(Tail(ids), current_allocation, target_allocation)
         IN  IF t = 0 THEN rest ELSE <<AssetUtilization(c, t)>> \o rest

\* the metrics with overall left at its initial 0.0 when no value was collected
calculate_utilization_initial_overall(current_allocation, target_allocation) ==
    LET ids == UnionIds(current_allocation, target_allocation)
        utilization_values == UtilizationValues(IdList(ids), current_allocation, target_allocation)
    IN  [overall |-> IF utilization_values # <<>> THEN Median(utilization_values) ELSE FInt(0),
         by_asset |-> [a \in ids |-> AssetUtilization(AmountOf(current_allocation, a),
                                                       AmountOf(target_allocation, a))]]

calculate_utilization(current_allocation, target_allocation) ==
    LET ids == UnionIds(current_allocation, target_allocation)
        utilization_values == UtilizationValues(IdList(ids), current_allocation, target_allocation)
    IN  [overall |-> IF utilization_values # <<>> THEN Median(utilization_values) ELSE FInt(1),
         by_asset |-> [a \in ids |-> AssetUtilization(AmountOf(current_allocation, a),
                                                       AmountOf(target_allocation, a))]]

\* the difference taken relative to the target only
DifferenceToTarget(current_amount, target_amount) ==
    IF target_amount = 0 /\ current_amount = 0 THEN FInt(0)
    ELSE IF target_amount = 0 THEN FInt(1)
    ELSE IF current_amount = 0 THEN FInt(1)
    ELSE Frac(Abs(target_amount - current_amount), target_amount)

\* the relative difference of one asset in calculate_reallocation_needs
Difference(current_amount, target_amount) ==
    IF target_amount = 0 /\ current_amount = 0 THEN FInt(0)
    ELSE IF target_amount = 0 THEN FInt(1)
    ELSE IF current_amount = 0 THEN FInt(1)
    ELSE FMax(Frac(target_amount - current_amount, target_amount),
              Frac(current_amount - target_amount, current_amount))

RECURSIVE SumDifferences(_, _, _)
SumDifferences(ids, current_allocation, target_allocation) ==
    IF ids = <<>> THEN FInt(0)
    ELSE FAdd(Difference(AmountOf(current_allocation, Head(ids)),
                         AmountOf(target_allocation, Head(ids))),
              SumDifferences(Tail(ids), current_allocation, target_allocation))

\* the list with an action for every asset of the union, a zero amount included
RECURSIVE ActionsForEveryAsset(_, _, _)
ActionsForEveryAsset(ids, current_allocation, target_allocation) ==
    IF ids = <<>> THEN <<>>
    ELSE LET c == AmountOf(current_allocation, Head(ids))
             t == AmountOf(target_allocation, Head(ids))
         IN  <<[pool_id |-> Head(ids), amount |-> t - c]>>
             \o ActionsForEveryAsset(Tail(ids), current_allocation, target_allocation)

RECURSIVE Actions(_, _, _)
Actions(ids, current_allocation, target_allocation) ==
    IF ids = <<>> THEN <<>>
    ELSE LET c == AmountOf(current_allocation, Head(ids))
             t == AmountOf(target_allocation, Head(ids))
             rest == Actions(Tail(ids), current_allocation, target_allocation)
         IN  IF Difference(c, t) = FInt(0) THEN rest
             ELSE <<[pool_id |-> Head(ids), amount |-> t - c]>> \o rest

\* the function dividing by the number of assets of the union, which is never zero
\* where the function is reached
calculate_reallocation_needs_over_union(current_allocation, target_allocation) ==
    LET ids == IdList(UnionIds(current_allocation, target_allocation))
        overall == SumDifferences(ids, current_allocation, target_allocation)
        count == Len(ids)
    IN  IF count = 0
        THEN [raised |-> TRUE]
        ELSE [raised |-> FALSE,
              reallocation_actions |-> Actions(ids, current_allocation, target_allocation),
              needs_reallocation |-> FLt(reallocation_threshold, FDiv(overall, FInt(count)))]

\* raises ZeroDivisionError when current_allocation is empty
calculate_reallocation_needs(current_allocation, target_allocation) ==
    LET ids == IdList(UnionIds(current_allocation, target_allocation))
        overall == SumDifferences(ids, current_allocation, target_allocation)
        count == Cardinality(DOMAIN current_allocation)
    IN  IF count = 0
        THEN [raised |-> TRUE]
        ELSE [raised |-> FALSE,
              reallocation_actions |-> Actions(ids, current_allocation, target_allocation),
              needs_reallocation |-> FLt(reallocation_threshold, FDiv(overall, FInt(count)))]

\* the range with its two bounds left out
WithinRangeStrict(overall_utilization) ==
    /\ FLt(FSub(FInt(1), reallocation_threshold), overall_utilization)
    /\ FLt(overall_utilization, FAdd(FInt(1), reallocation_threshold))

\* 1.0 - threshold <= overall_utilization <= 1.0 + threshold
WithinRange(overall_utilization) ==
    /\ FLe(FSub(FInt(1), reallocation_threshold), overall_utilization)
    /\ FLe(overall_utilization, FAdd(FInt(1), reallocation_threshold))

\* dict.get(key, default)
Get(dict, key, default) == IF key \in DOMAIN dict THEN dict[key] ELSE default

evaluate_portfolio(registry, pool_id, optimization_result) ==
    IF pool_id \notin DOMAIN registry
    THEN [pool_id |-> pool_id, status |-> "error", message |-> "Unknown vault"]
    ELSE
    LET current_allocation == registry[pool_id].current_allocation
        new_allocation == Get(optimization_result, "allocation", EmptyAllocation)
    IN  IF DOMAIN new_allocation = {}
        THEN [pool_id |-> pool_id, status |-> "error",
              message |-> "No allocation data in optimization result"]
        ELSE
        LET utilization_metrics == calculate_utilization(current_allocation, new_allocation)
        IN  IF WithinRange(utilization_metrics.overall)
            THEN [pool_id |-> pool_id, status |-> "success", needs_reallocation |-> FALSE,
                  utilization_metrics |-> utilization_metrics]
            ELSE
            LET needs == calculate_reallocation_needs(current_allocation, new_allocation)
            IN  IF needs.raised
                THEN [pool_id |-> pool_id, status |-> "error", message |-> "division by zero"]
                ELSE IF ~needs.needs_reallocation
                THEN [pool_id |-> pool_id, status |-> "success", needs_reallocation |-> FALSE,
                      utilization_metrics |-> utilization_metrics]
                ELSE [pool_id |-> pool_id, status |-> "success", needs_reallocation |-> TRUE,
                      utilization_metrics |-> utilization_metrics,
                      reallocation_actions |-> needs.reallocation_actions]

-----------------------------------------------------------------------------
(* Evaluator: liquidity check and execution *)

\* the liquidity lookup capability: for each pool either a failure of the call or the
\* amount available (evaluator.py has a placeholder that always answers the amount asked)
LookupOutcomes ==
    {[ok |-> FALSE, available |-> 0], [ok |-> TRUE, available |-> 10],
     [ok |-> TRUE, available |-> 100]}

available_liquidity(lookup, pool_id, amount) == lookup[pool_id]

WithdrawActions(reallocation_actions) == SelectSeq(reallocation_actions, LAMBDA a : a.amount < 0)
DepositActions(reallocation_actions) == SelectSeq(reallocation_actions, LAMBDA a : a.amount > 0)

RECURSIVE SumAbs(_)
SumAbs(actions) ==
    IF actions = <<>> THEN 0 ELSE Abs(Head(actions).amount) + SumAbs(Tail(actions))

\* LiquidityLoop where a withdrawal that falls short is treated as a failed lookup
RECURSIVE LiquidityLoopShortIsFailure(_, _, _)
LiquidityLoopShortIsFailure(withdraw_actions, lookup, acc) ==
    IF withdraw_actions = <<>> THEN acc
    ELSE LET pool_id == Head(withdraw_actions).pool_id
             amount == Abs(Head(withdraw_actions).amount)
             answer == available_liquidity(lookup, pool_id, amount)
             next ==
               IF ~answer.ok \/ answer.available < amount
               THEN [acc EXCEPT !.has_liquidity = FALSE, !.fully_matched = FALSE,
                                !.shortfall = IF answer.ok THEN @ + (amount - answer.available)
                                              ELSE @,
                                !.details = Append(@, [pool_id |-> pool_id, requested |-> amount,
                                                       available |-> 0, fully_matched |-> FALSE,
                                                       error |-> TRUE])]
               ELSE [acc EXCEPT
                       !.details = Append(@, [pool_id |-> pool_id, requested |-> amount,
                                              available |-> answer.available,
                                              fully_matched |-> TRUE])]
         IN  LiquidityLoopShortIsFailure(Tail(withdraw_actions), lookup, next)

\* the loop with every shortfall counted as the whole requested amount
RECURSIVE LiquidityLoopWholeAmount(_, _, _)
LiquidityLoopWholeAmount(withdraw_actions, lookup, acc) ==
    IF withdraw_actions = <<>> THEN acc
    ELSE LET pool_id == Head(withdraw_actions).pool_id
             amount == Abs(Head(withdraw_actions).amount)
             answer == available_liquidity(lookup, pool_id, amount)
             next ==
               IF ~answer.ok
               THEN [acc EXCEPT !.has_liquidity = FALSE, !.fully_matched = FALSE]
               ELSE [acc EXCEPT
                       !.fully_matched = IF answer.available < amount THEN FALSE ELSE @,
                       !.shortfall = IF answer.available < amount THEN @ + amount ELSE @]
         IN  LiquidityLoopWholeAmount(Tail(withdraw_actions), lookup, next)

\* the loop over withdraw_actions; acc carries has_liquidity, fully_matched, shortfall, details
RECURSIVE LiquidityLoop(_, _, _)
LiquidityLoop(withdraw_actions, lookup, acc) ==
    IF withdraw_actions = <<>> THEN acc
    ELSE LET pool_id == Head(withdraw_actions).pool_id
             amount == Abs(Head(withdraw_actions).amount)
             answer == available_liquidity(lookup, pool_id, amount)
             next ==
               IF ~answer.ok
               THEN [acc EXCEPT !.has_liquidity = FALSE, !.fully_matched = FALSE,
                                !.details = Append(@, [pool_id |-> pool_id, requested |-> amount,
                                                       available |-> 0, fully_matched |-> FALSE,
                                                       error |-> TRUE])]
               ELSE [acc EXCEPT
                       !.fully_matched = IF answer.available < amount THEN FALSE ELSE @,
                       !.shortfall = IF answer.available < amount
                                     THEN @ + (amount - answer.available) ELSE @,
                       !.details = Append(@, [pool_id |-> pool_id, requested |-> amount,
                                              available |-> answer.available,
                                              fully_matched |-> answer.available >= amount])]
         IN  LiquidityLoop(Tail(withdraw_actions), lookup, next)

check_liquidity(client, reallocation_actions, lookup) ==
    IF ~client
    THEN [has_liquidity |-> FALSE, fully_matched |-> FALSE,
          details |-> "Supabase client not initialized"]
    ELSE LET withdraw_actions == WithdrawActions(reallocation_actions)
             deposit_actions == DepositActions(reallocation_actions)
             acc == LiquidityLoop(withdraw_actions, lookup,
                                  [has_liquidity |-> TRUE, fully_matched |-> TRUE,
                                   shortfall |-> 0, details |-> <<>>])
         IN  [has_liquidity |-> acc.has_liquidity,
              fully_matched |-> acc.fully_matched,
              total_withdraw |-> SumAbs(withdraw_actions),
              total_deposit |-> SumAbs(deposit_actions),
              liquidity_shortfall |-> IF ~acc.fully_matched THEN acc.shortfall ELSE 0,
              details |-> acc.details]

\* Evaluator.publish_zmq_message: what the socket sends for one call (nothing
\* without a publisher, nothing when json.dumps or send_string raises)
publish_zmq_message(publisher, topic) ==
    IF publisher = "none" THEN <<>>
    ELSE IF publisher = "failing" THEN <<>>
    ELSE <<topic>>

RECURSIVE PublishAll(_, _)
PublishAll(publisher, topics) ==
    IF topics = <<>> THEN <<>>
    ELSE publish_zmq_message(publisher, Head(topics)) \o PublishAll(publisher, Tail(topics))

\* f"reallocation.{pool_id}.{classification}"
Topic(classification, pool_id) ==
    [layout |-> "reallocation.<pool_id>.<classification>",
     pool_id |-> pool_id, classification |-> classification]

\* f"{status_topic}.{pool_id}" with status_topic reallocation.success or reallocation.partial
StatusTopic(classification, pool_id) ==
    [layout |-> "reallocation.<classification>.<pool_id>",
     pool_id |-> pool_id, classification |-> classification]

\* process_reallocation: the result it returns and the topic it publishes
process_reallocation(client, pool_id, reallocation_actions, lookup) ==
    LET liquidity_result == check_liquidity(client, reallocation_actions, lookup)
    IN  IF ~Get(liquidity_result, "has_liquidity", FALSE)
        THEN [result |-> [pool_id |-> pool_id, status |-> "error",
                          message |-> "Insufficient liquidity for reallocation",
                          liquidity_result |-> liquidity_result],
              topic |-> Topic("error", pool_id)]
        ELSE LET fully_matched == Get(liquidity_result, "fully_matched", FALSE)
                 base == [status |-> IF fully_matched THEN "MATCHED" ELSE "PARTIAL",
                          pool_id |-> pool_id,
                          reallocation_actions |-> reallocation_actions,
                          liquidity_metrics |-> liquidity_result,
                          total_reallocation_amount |-> SumAbs(reallocation_actions)]
                 reallocation_summary ==
                    IF ~fully_matched
                    THEN [k \in DOMAIN base \cup {"liquidity_shortfall"} |->
                            IF k = "liquidity_shortfall"
                            THEN Get(liquidity_result, "liquidity_shortfall", 0)
                            ELSE base[k]]
                    ELSE base
             IN  [result |-> [status |-> "success",
                              reallocation_summary |-> reallocation_summary],
                  topic |-> IF fully_matched THEN StatusTopic("success", pool_id)
                            ELSE StatusTopic("partial", pool_id)]

\* run_reallocation_flow that publishes its own record after process_reallocation
\* has published one
run_reallocation_flow_publishing_again(client, registry, pool_id, optimization_result, lookup) ==
    LET evaluation_result == evaluate_portfolio(registry, pool_id, optimization_result)
    IN  IF ~Get(evaluation_result, "needs_reallocation", FALSE)
        THEN [result |-> [pool_id |-> pool_id, status |-> "success",
                          reallocation_needed |-> FALSE,
                          evaluation_result |-> evaluation_result],
              topics |-> <<Topic("no_change", pool_id)>>]
        ELSE LET reallocation_actions == Get(evaluation_result, "reallocation_actions", <<>>)
             IN  IF reallocation_actions = <<>>
                 THEN [result |-> [pool_id |-> pool_id, status |-> "warning",
                                   message |-> "Reallocation needed but no actions specified",
                                   evaluation_result |-> evaluation_result],
                       topics |-> <<Topic("warning", pool_id)>>]
                 ELSE LET processed == process_reallocation(client, pool_id,
                                                            reallocation_actions, lookup)
                      IN  [result |-> [pool_id |-> pool_id, status |-> "success",
                                       reallocation_needed |-> TRUE,
                                       evaluation_result |-> evaluation_result,
                                       reallocation_result |-> processed.result],
                           topics |-> <<processed.topic, Topic("success", pool_id)>>]

\* run_reallocation_flow: the result it returns and the topics published on the way
run_reallocation_flow(client, registry, pool_id, optimization_result, lookup) ==
    LET evaluation_result == evaluate_portfolio(registry, pool_id, optimization_result)
    IN  IF ~Get(evaluation_result, "needs_reallocation", FALSE)
        THEN [result |-> [pool_id |-> pool_id, status |-> "success",
                          reallocation_needed |-> FALSE,
                          evaluation_result |-> evaluation_result],
              topics |-> <<Topic("no_change", pool_id)>>]
        ELSE LET reallocation_actions == Get(evaluation_result, "reallocation_actions", <<>>)
             IN  IF reallocation_actions = <<>>
                 THEN [result |-> [pool_id |-> pool_id, status |-> "warning",
                                   message |-> "Reallocation needed but no actions specified",
                                   evaluation_result |-> evaluation_result],
                       topics |-> <<Topic("warning", pool_id)>>]
                 ELSE LET processed == process_reallocation(client, pool_id,
                                                            reallocation_actions, lookup)
                      IN  [result |-> [pool_id |-> pool_id, status |-> "success",
                                       reallocation_needed |-> TRUE,
                                       evaluation_result |-> evaluation_result,
                                       reallocation_result |-> processed.result],
                           topics |-> <<processed.topic>>]

-----------------------------------------------------------------------------
(* Actions of the Evaluator *)

AllocAmounts == {20, 40}

\* allocations that put a ratio on a bound of the gate (19/20, 21/20) or hold an
\* asset at amount zero
BoundaryAllocations ==
    {(28 :> 19), (28 :> 21), (28 :> 0), (28 :> 0 @@ 29 :> 20),
     (28 :> 19 @@ 29 :> 40 @@ 1071 :> 19), (28 :> 0 @@ 29 :> 40 @@ 1071 :> 20)}

\* allocations over fewer than all assets
PartialAllocations == {EmptyAllocation, (28 :> 20), (28 :> 40 @@ 29 :> 20)}

Allocations == [Assets -> AllocAmounts] \cup PartialAllocations \cup BoundaryAllocations

OptimizationResults ==
    {[status |-> "success", allocation |-> a] : a \in Allocations}
    \cup {[status |-> "error", message |-> "Optimization error"]}

NoCall == [op |-> "none"]
NoResult == [status |-> "none"]

\* Evaluator.update_vault, called while no decision cycle is being handled
UpdateVault(vault_info) ==
    /\ flow_call = NoCall
    /\ vaults' = UpdateVaultIn(vaults, vault_info)
    /\ UNCHANGED <<supabase_client, abs_vault_info, ledger, flow_call, flow_result,
                   published, opt_input, opt_weights,
                   evaluator_vars, cascade_vars, event_vars>>

\* Evaluator.update_allocation, called while no decision cycle is being handled
UpdateAllocation(pool_id, allocation_data) ==
    /\ flow_call = NoCall
    /\ vaults' = IF pool_id \in DOMAIN vaults
                 THEN [vaults EXCEPT ![pool_id].current_allocation = allocation_data]
                 ELSE vaults
    /\ UNCHANGED <<supabase_client, abs_vault_info, ledger, flow_call, flow_result,
                   published, opt_input, opt_weights,
                   evaluator_vars, cascade_vars, event_vars>>

\* the pools of the withdrawals that the flow will look up for this call
PoolsToLookUp(pool_id, optimization_result) ==
    LET evaluation_result == evaluate_portfolio(vaults, pool_id, optimization_result)
        actions == Get(evaluation_result, "reallocation_actions", <<>>)
        withdraw_actions == WithdrawActions(actions)
    IN  {withdraw_actions[i].pool_id : i \in 1..Len(withdraw_actions)}

\* Evaluator.run_reallocation_flow, one decision cycle (events are handled one at a
\* time: the cycle starts when the previous call has returned to its caller)
RunReallocationFlow(pool_id, optimization_result) ==
    /\ flow_call = NoCall
    /\ \E lookup \in [PoolsToLookUp(pool_id, optimization_result) -> LookupOutcomes] :
        \E flow \in {run_reallocation_flow(supabase_client, vaults, pool_id,
                                           optimization_result, lookup)} :
            /\ flow_call' = [op |-> "run_reallocation_flow", pool_id |-> pool_id,
                             optimization_result |-> optimization_result,
                             lookup |-> lookup]
            /\ flow_result' = flow.result
            /\ published' = flow.topics
            /\ sink' = PublishAll(zmq_publisher, flow.topics)
            /\ UNCHANGED <<supabase_client, abs_vault_info, ledger, vaults,
                           opt_input, opt_weights, zmq_publisher, cascade_vars, event_vars>>

\* the caller has taken the result of the cycle; the next event can be handled
FlowReturns ==
    /\ flow_call # NoCall
    /\ flow_call' = NoCall
    /\ flow_result' = NoResult
    /\ published' = <<>>
    /\ sink' = <<>>
    /\ UNCHANGED <<supabase_client, abs_vault_info, ledger, vaults, opt_input, opt_weights,
                   zmq_publisher, cascade_vars, event_vars>>

-----------------------------------------------------------------------------
(* Decision cycles: a vault is registered, its allocation set, flows are run *)

InitEvaluator ==
    /\ supabase_client \in BOOLEAN
    /\ abs_vault_info = {}
    /\ ledger = <<>>
    /\ vaults = [v \in {} |-> 0]
    /\ flow_call = NoCall
    /\ flow_result = NoResult
    /\ published = <<>>
    /\ opt_input = [status |-> "none"]
    /\ opt_weights = [status |-> "none"]
    /\ zmq_publisher \in {"none", "ok", "failing"}
    /\ sink = <<>>
    /\ opt_vaults = <<>>
    /\ market_data = NoMarketData
    /\ opt_call = NoCall
    /\ opt_result = NoResult
    /\ NoEventHandler

\* vault 1 gets registered; vault 2 never is, and is named by a few calls only
UpdateAllocationInputs ==
    ({1} \X Allocations) \cup {<<2, (28 :> 20)>>}

RunReallocationFlowInputs ==
    ({1} \X OptimizationResults)
    \cup ({2} \X {[status |-> "success", allocation |-> (28 :> 20)],
                  [status |-> "error", message |-> "Optimization error"]})

NextEvaluator ==
    \/ UpdateVault(VaultInfoOf(1))
    \/ \E input \in UpdateAllocationInputs : UpdateAllocation(input[1], input[2])
    \/ \E input \in RunReallocationFlowInputs : RunReallocationFlow(input[1], input[2])
    \/ FlowReturns

SpecEvaluator == InitEvaluator /\ [][NextEvaluator]_vars

\* --- the last call was a decision cycle; its inputs and outputs ---

FlowRan == flow_call.op = "run_reallocation_flow"
FlowVault == flow_call.pool_id
FlowRegistered == FlowRan /\ FlowVault \in DOMAIN vaults
FlowCurrent == vaults[FlowVault].current_allocation
FlowTarget == Get(flow_call.optimization_result, "allocation", EmptyAllocation)
FlowAssets == DOMAIN FlowCurrent \cup DOMAIN FlowTarget
FlowEvaluation == flow_result.evaluation_result
FlowHasUtilization == FlowRan /\ "utilization_metrics" \in DOMAIN FlowEvaluation
FlowOverall == FlowEvaluation.utilization_metrics.overall

CurrentOf(a) == IF a \in DOMAIN FlowCurrent THEN FlowCurrent[a] ELSE 0
TargetOf(a) == IF a \in DOMAIN FlowTarget THEN FlowTarget[a] ELSE 0

\* the assets whose ratio current/target is finite: target non-zero, or both zero
FiniteRatioAssets == {a \in FlowAssets : TargetOf(a) # 0 \/ CurrentOf(a) = 0}

RatioOf(a) == IF TargetOf(a) = 0 THEN <<0, 1>> ELSE Frac(CurrentOf(a), TargetOf(a))

RECURSIVE RatioList(_)
RatioList(ids) ==
    IF ids = {} THEN <<>>
    ELSE LET a == CHOOSE x \in ids : TRUE IN <<RatioOf(a)>> \o RatioList(ids \ {a})

\* C4: overall is the median of all finite per-asset ratios over the union of the
\* asset ids (0 counted when both amounts are zero), and 1 when no ratio is finite.
C4_MedianOfFiniteRatios ==
    FlowHasUtilization =>
        FlowOverall = IF FiniteRatioAssets = {} THEN <<1, 1>>
                      ELSE Median(RatioList(FiniteRatioAssets))

C6_NoOpGate_AsStated ==
    (FlowRegistered /\ \A a \in Assets : CurrentOf(a) = TargetOf(a)) =>
        /\ FlowHasUtilization
        /\ FlowOverall = <<1, 1>>
        /\ Get(FlowEvaluation, "needs_reallocation", TRUE) = FALSE

\* C6 (amended): with a non-empty target map, equal current and target amounts for
\* every asset give overall 1.0 and needs_reallocation false.
C6_NoOpGate ==
    (FlowRegistered /\ DOMAIN FlowTarget # {} /\ \A a \in Assets : CurrentOf(a) = TargetOf(a)) =>
        /\ FlowHasUtilization
        /\ FlowOverall = <<1, 1>>
        /\ Get(FlowEvaluation, "needs_reallocation", TRUE) = FALSE

\* current and target agree on three assets, one of them held at amount zero
C6_Witness ==
    /\ FlowRegistered
    /\ DOMAIN FlowCurrent = Assets
    /\ \A a \in Assets : CurrentOf(a) = TargetOf(a)
    /\ \E a \in Assets : CurrentOf(a) = 0
    /\ \E a \in Assets : CurrentOf(a) = 40
    /\ FlowHasUtilization
    /\ FlowOverall = <<1, 1>>
    /\ flow_result.reallocation_needed = FALSE

\* the asset differs from its target by more than the threshold (5% of the target)
Deviates(a) ==
    /\ CurrentOf(a) # TargetOf(a)
    /\ TargetOf(a) = 0 \/ 20 * Abs(CurrentOf(a) - TargetOf(a)) > TargetOf(a)

\* C7: when a strict majority of the assets (all held and targeted at positive
\* amounts) deviate from their targets, some above and some below, the cycle
\* succeeds with reallocation_needed true and a non-empty list of actions.
C7_MajorityDeviationReallocates ==
    (/\ FlowRegistered
     /\ \A a \in FlowAssets : CurrentOf(a) > 0 /\ TargetOf(a) > 0
     /\ 2 * Cardinality({a \in FlowAssets : Deviates(a)}) > Cardinality(FlowAssets)
     /\ \E a \in FlowAssets : Deviates(a) /\ CurrentOf(a) > TargetOf(a)
     /\ \E a \in FlowAssets : Deviates(a) /\ CurrentOf(a) < TargetOf(a)) =>
        /\ flow_result.status = "success"
        /\ Get(flow_result, "reallocation_needed", FALSE) = TRUE
        /\ Get(FlowEvaluation, "reallocation_actions", <<>>) # <<>>

\* --- liquidity of the last cycle ---

FlowProcessed == FlowRan /\ "reallocation_result" \in DOMAIN flow_result
FlowWithdrawals == {a \in FlowAssets : CurrentOf(a) > TargetOf(a)}
RequestedOf(a) == CurrentOf(a) - TargetOf(a)
LookupSucceeded == \A a \in DOMAIN flow_call.lookup : flow_call.lookup[a].ok

RECURSIVE ShortfallOver(_)
ShortfallOver(pools) ==
    IF pools = {} THEN 0
    ELSE LET a == CHOOSE x \in pools : TRUE
             missing == RequestedOf(a) - flow_call.lookup[a].available
         IN  (IF missing > 0 THEN missing ELSE 0) + ShortfallOver(pools \ {a})

FlowReallocation == flow_result.reallocation_result
FlowAssessment ==
    IF "liquidity_result" \in DOMAIN FlowReallocation
    THEN FlowReallocation.liquidity_result
    ELSE FlowReallocation.reallocation_summary.liquidity_metrics
FlowShort == {a \in FlowWithdrawals : /\ a \in DOMAIN flow_call.lookup
                                       /\ flow_call.lookup[a].ok
                                       /\ RequestedOf(a) > flow_call.lookup[a].available}

C12_FullyMatchedIffNoShortfall ==
    FlowProcessed =>
        (FlowAssessment.fully_matched = TRUE
            <=> Get(FlowAssessment, "liquidity_shortfall", 0) = 0)

\* C13: when the assessment has has_liquidity false, process_reallocation returns an
\* error and composes no summary, and the result of run_reallocation_flow has status
\* error.
C13_NoLiquidityAborts ==
    (FlowProcessed /\ FlowAssessment.has_liquidity = FALSE) =>
        /\ FlowReallocation.status = "error"
        /\ "reallocation_summary" \notin DOMAIN FlowReallocation
        /\ flow_result.status = "error"

\* --- what the notification sink received for the last cycle ---

Classifications == {"success", "partial", "warning", "no_change", "error"}

OneOutcomeRecord ==
    /\ Len(sink) = 1
    /\ sink[1].pool_id = FlowVault
    /\ sink[1].classification \in Classifications

C17_FailedEvaluationPublishedAsError ==
    (FlowRan /\ "evaluation_result" \in DOMAIN flow_result
             /\ FlowEvaluation.status = "error") =>
        /\ published # <<>>
        /\ \A i \in 1..Len(published) : published[i].classification = "error"

\* --- the plan of the last cycle: empty current allocation, needs_reallocation ---

\* an empty current allocation against a non-empty target: the gate fails at overall
\* 0, the division by the number of held assets raises, the evaluation is an error
\* and no action leaves the cycle
EmptyCurrentFails ==
    /\ calculate_utilization(FlowCurrent, FlowTarget).overall = FInt(0)
    /\ ~WithinRange(calculate_utilization(FlowCurrent, FlowTarget).overall)
    /\ calculate_reallocation_needs(FlowCurrent, FlowTarget).raised
    /\ FlowEvaluation.status = "error"
    /\ "reallocation_actions" \notin DOMAIN FlowEvaluation
    /\ "reallocation_result" \notin DOMAIN flow_result
    /\ \A i \in 1..Len(published) :
          published[i].classification \notin {"success", "partial"}

AsymmetricDifference(a) ==
    LET c == CurrentOf(a)
        t == TargetOf(a)
    IN  IF c = 0 /\ t = 0 THEN <<0, 1>>
        ELSE IF c = 0 \/ t = 0 THEN <<1, 1>>
        ELSE IF t >= c THEN Frac(t - c, t) ELSE Frac(c - t, c)

RECURSIVE DifferenceSum(_)
DifferenceSum(assets) ==
    IF assets = {} THEN <<0, 1>>
    ELSE LET a == CHOOSE x \in assets : TRUE
         IN  FAdd(AsymmetricDifference(a), DifferenceSum(assets \ {a}))

GateFailed ==
    /\ FlowHasUtilization
    /\ ~(19 * FlowOverall[2] <= 20 * FlowOverall[1] /\ 20 * FlowOverall[1] <= 21 * FlowOverall[2])

\* C27: when the gate fails and the current allocation is non-empty,
\* needs_reallocation is true exactly when the sum of the asymmetric relative
\* differences over the union of assets, divided by the number of currently
\* allocated assets, is strictly greater than the threshold 0.05.
C27_NeedsIffMeanDifferenceAboveThreshold ==
    (GateFailed /\ DOMAIN FlowCurrent # {}) =>
        LET total == DifferenceSum(FlowAssets)
            count == Cardinality(DOMAIN FlowCurrent)
        IN  FlowEvaluation.needs_reallocation = TRUE
               <=> 20 * total[1] > count * total[2]

\* 20 held against a target of 19: the ratio 20/19 is outside the gate, the
\* difference 1/20 is not above the threshold, and no reallocation is needed
C27_Witness ==
    /\ GateFailed
    /\ DOMAIN FlowCurrent = {28}
    /\ CurrentOf(28) = 20 /\ TargetOf(28) = 19
    /\ FlowOverall = <<20, 19>>
    /\ FlowEvaluation.needs_reallocation = FALSE

-----------------------------------------------------------------------------
(* Action generation: calculate_reallocation_needs on pairs of allocation maps *)

\* Evaluator.calculate_reallocation_needs called with two allocation maps
CalculateReallocationNeeds(current_allocation, target_allocation) ==
    /\ flow_call = NoCall
    /\ flow_call' = [op |-> "calculate_reallocation_needs",
                     current_allocation |-> current_allocation,
                     target_allocation |-> target_allocation]
    /\ flow_result' = calculate_reallocation_needs(current_allocation, target_allocation)
    /\ UNCHANGED <<supabase_client, abs_vault_info, ledger, vaults, published,
                   opt_input, opt_weights, evaluator_vars, cascade_vars, event_vars>>

InitNeeds ==
    /\ supabase_client = TRUE
    /\ abs_vault_info = {}
    /\ ledger = <<>>
    /\ vaults = [v \in {} |-> 0]
    /\ flow_call = NoCall
    /\ flow_result = NoResult
    /\ published = <<>>
    /\ opt_input = [status |-> "none"]
    /\ opt_weights = [status |-> "none"]
    /\ zmq_publisher = "none"
    /\ sink = <<>>
    /\ opt_vaults = <<>>
    /\ market_data = NoMarketData
    /\ opt_call = NoCall
    /\ opt_result = NoResult
    /\ NoEventHandler

NextNeeds ==
    \/ \E current_allocation \in Allocations, target_allocation \in Allocations :
          CalculateReallocationNeeds(current_allocation, target_allocation)
    \/ FlowReturns

SpecNeeds == InitNeeds /\ [][NextNeeds]_vars

NeedsReturned ==
    /\ flow_call.op = "calculate_reallocation_needs"
    /\ ~flow_result.raised

NeedsCurrent(a) == AmountOf(flow_call.current_allocation, a)
NeedsTarget(a) == AmountOf(flow_call.target_allocation, a)
NeedsUnion == DOMAIN flow_call.current_allocation \cup DOMAIN flow_call.target_allocation
ActionsFor(a) ==
    {i \in 1..Len(flow_result.reallocation_actions) :
        flow_result.reallocation_actions[i].pool_id = a}

-----------------------------------------------------------------------------
(* Optimizer: adaptor constraints *)

\* Optimizer._is_pool_in_adaptor: a placeholder that answers True for every pair
_is_pool_in_adaptor(pool_id, adaptor) == TRUE

\* list.index(x): position of the first occurrence
IndexOf(list, x) == CHOOSE i \in 1..Len(list) : list[i] = x /\ \A j \in 1..(i - 1) : list[j] # x

\* the distinct elements of a list in order of first occurrence (dict insertion order)
RECURSIVE Distinct(_)
Distinct(list) ==
    IF list = <<>> THEN <<>>
    ELSE LET before == Distinct(SubSeq(list, 1, Len(list) - 1))
             x == list[Len(list)]
         IN  IF \E i \in 1..Len(before) : before[i] = x THEN before ELSE Append(before, x)

SeqToSet(list) == {list[i] : i \in 1..Len(list)}

\* Optimizer._get_adaptor_constraints: adaptor -> max_weight (min_weight is always 0.0)
_get_adaptor_constraints(vault_info) ==
    LET adaptors == Get(vault_info, "adaptors", <<>>)
        weights == Get(vault_info, "weight", <<>>)
        allowed_pools == Get(vault_info, "allowed_pools", <<>>)
    IN  IF adaptors = <<>> \/ weights = <<>> \/ allowed_pools = <<>>
        THEN [a \in {} |-> <<0, 1>>]
        ELSE IF Len(adaptors) # Len(weights)
        THEN [a \in {} |-> <<0, 1>>]
        ELSE [a \in {b \in SeqToSet(adaptors) :
                        \E i \in 1..Len(allowed_pools) : _is_pool_in_adaptor(allowed_pools[i], b)}
                 |-> Frac(weights[IndexOf(adaptors, a)], 100)]

RECURSIVE SumWeights(_, _)
SumWeights(weights, pools) ==
    IF pools = {} THEN <<0, 1>>
    ELSE LET p == CHOOSE x \in pools : TRUE
         IN  FAdd(weights[p], SumWeights(weights, pools \ {p}))

MemberPools(weights, adaptor) == {p \in DOMAIN weights : _is_pool_in_adaptor(p, adaptor)}

\* the scaling loop over adaptor_weights.items(); the sums were taken before any scaling
RECURSIVE ScaleAdaptors(_, _, _, _)
ScaleAdaptors(weights, adaptor_list, adaptor_weights, constraints) ==
    IF adaptor_list = <<>> THEN weights
    ELSE LET adaptor == Head(adaptor_list)
             current_weight == adaptor_weights[adaptor]
             scaled ==
               IF adaptor \in DOMAIN constraints /\ FLt(constraints[adaptor], current_weight)
               THEN LET scale_factor == FDiv(constraints[adaptor], current_weight)
                    IN  [p \in DOMAIN weights |->
                           IF _is_pool_in_adaptor(p, adaptor)
                           THEN FMul(weights[p], scale_factor) ELSE weights[p]]
               ELSE weights
         IN  ScaleAdaptors(scaled, Tail(adaptor_list), adaptor_weights, constraints)

\* Optimizer._apply_adaptor_constraints
_apply_adaptor_constraints(weights, constraints, vault_info) ==
    LET grouped == IF DOMAIN weights = {} THEN <<>>
                   ELSE Distinct(Get(vault_info, "adaptors", <<>>))
        adaptor_weights ==
            [a \in SeqToSet(grouped) |-> SumWeights(weights, MemberPools(weights, a))]
        scaled == ScaleAdaptors(weights, grouped, adaptor_weights, constraints)
        total_weight == SumWeights(scaled, DOMAIN scaled)
    IN  IF FLt(<<0, 1>>, total_weight)
        THEN [p \in DOMAIN scaled |-> FDiv(scaled[p], total_weight)]
        ELSE scaled

\* the constraint steps of Optimizer.handle_market_data for one vault: the caps are
\* read from vault_info, then applied to the weights the solver returned
ApplyAdaptorConstraints ==
    LET vault_info == opt_input.vault_info
        adaptor_constraints == _get_adaptor_constraints(vault_info)
    IN  /\ opt_weights.status = "pending"
        /\ opt_weights' =
             IF DOMAIN adaptor_constraints = {}
             THEN [status |-> "error", message |-> "No valid adaptor constraints"]
             ELSE [status |-> "success",
                   weights |-> _apply_adaptor_constraints(opt_input.weights,
                                                          adaptor_constraints, vault_info)]
        /\ UNCHANGED <<supabase_client, abs_vault_info, ledger, vaults, flow_call,
                       flow_result, published, opt_input, evaluator_vars, cascade_vars, event_vars>>

-----------------------------------------------------------------------------
(* Constraint processing: vault configurations and solver outputs *)

MaxAdaptors == 2
WeightSteps == 4

AdaptorNames == {"kamino-lend", "save"}
CapPercents == {0, 50, 100}
AllowedPools == <<28, 29, 1071>>

SeqsUpTo(S, n) == UNION {[1..k -> S] : k \in 0..n}

\* vault_info records: adaptors, their caps in percent, the allowed pools
OptimizerVaultInfos ==
    {[pool_id |-> 1, strategy |-> "min_risk", adaptors |-> ad, weight |-> w,
      allowed_pools |-> AllowedPools] :
        ad \in SeqsUpTo(AdaptorNames, MaxAdaptors) \ {<<>>},
        w \in SeqsUpTo(CapPercents, MaxAdaptors) \ {<<>>}}

\* solver outputs: non-negative weights in steps of 1/WeightSteps that sum to 1
SolverWeights ==
    {[p \in SeqToSet(AllowedPools) |-> Frac(k[p], WeightSteps)] :
        k \in {f \in [SeqToSet(AllowedPools) -> 0..WeightSteps] :
                 f[28] + f[29] + f[1071] = WeightSteps}}

InitOptimizer ==
    /\ supabase_client = TRUE
    /\ abs_vault_info = {}
    /\ ledger = <<>>
    /\ vaults = [v \in {} |-> 0]
    /\ flow_call = NoCall
    /\ flow_result = NoResult
    /\ published = <<>>
    /\ opt_input \in [vault_info : OptimizerVaultInfos, weights : SolverWeights]
    /\ opt_weights = [status |-> "pending"]
    /\ zmq_publisher = "none"
    /\ sink = <<>>
    /\ opt_vaults = <<>>
    /\ market_data = NoMarketData
    /\ opt_call = NoCall
    /\ opt_result = NoResult
    /\ NoEventHandler

NextOptimizer == ApplyAdaptorConstraints

SpecOptimizer == InitOptimizer /\ [][NextOptimizer]_vars

ConstraintsApplied == opt_weights.status = "success"
Caps == _get_adaptor_constraints(opt_input.vault_info)
Tolerance == <<1, 1000000>>

\* C8: for every adaptor with a configured cap c, the returned weights of the
\* adaptor's member pools sum to at most c + 1e-6.
C8_AdaptorCapRespected ==
    ConstraintsApplied =>
        \A adaptor \in DOMAIN Caps :
            FLe(SumWeights(opt_weights.weights, MemberPools(opt_weights.weights, adaptor)),
                FAdd(Caps[adaptor], Tolerance))

\* C9: the returned weights sum to 1 within 1e-6.
C9_WeightsSumToOne ==
    ConstraintsApplied =>
        LET total == SumWeights(opt_weights.weights, DOMAIN opt_weights.weights)
        IN  /\ FLe(FSub(<<1, 1>>, Tolerance), total)
            /\ FLe(total, FAdd(<<1, 1>>, Tolerance))

-----------------------------------------------------------------------------
(* Reconciliation: the tables fill up and initialize_vault_info is run *)

InitReconcile ==
    /\ supabase_client = TRUE
    /\ abs_vault_info = VaultIds
    /\ ledger = <<>>
    /\ vaults = [v \in {} |-> 0]
    /\ flow_call = NoCall
    /\ flow_result = NoResult
    /\ published = <<>>
    /\ opt_input = [status |-> "none"]
    /\ opt_weights = [status |-> "none"]
    /\ zmq_publisher = "none"
    /\ sink = <<>>
    /\ opt_vaults = <<>>
    /\ market_data = NoMarketData
    /\ opt_call = NoCall
    /\ opt_result = NoResult
    /\ NoEventHandler

NextReconcile ==
    \/ \E e \in LedgerEntries, pos \in 0..MaxLedger : pos <= Len(ledger) /\ LedgerInsert(e, pos)
    \/ InitializeVaultInfo

SpecReconcile == InitReconcile /\ [][NextReconcile]_vars

\* --- what the claims speak about, stated over the set of ledger rows ---

\* positions of the rows of a vault that carry a valid timestamp
ValidRows(rows, v) ==
    {i \in 1..Len(rows) : rows[i].pool_id = v /\ rows[i].created_at_parsed # NaT}

GroupAt(rows, v, t) == {i \in ValidRows(rows, v) : rows[i].created_at_parsed = t}

PositiveGroups(rows, v) ==
    {t \in Timestamps : /\ GroupAt(rows, v, t) # {}
                        /\ \A i \in GroupAt(rows, v, t) : rows[i].amount > 0}

RECURSIVE SumAt(_, _, _)
SumAt(rows, idx, a) ==
    IF idx = {} THEN 0
    ELSE LET i == CHOOSE j \in idx : TRUE
         IN  (IF rows[i].allocated_pool_id = a THEN rows[i].amount ELSE 0)
             + SumAt(rows, idx \ {i}, a)

SumsOver(rows, idx) ==
    [a \in {rows[i].allocated_pool_id : i \in idx} |-> SumAt(rows, idx, a)]

PositiveSumsOver(rows, idx) ==
    [a \in {b \in {rows[i].allocated_pool_id : i \in idx} : SumAt(rows, idx, b) > 0}
        |-> SumAt(rows, idx, a)]

Permuted(rows, p) == [i \in 1..Len(rows) |-> rows[p[i]]]

Perms(n) == {p \in [1..n -> 1..n] : \A i, j \in 1..n : p[i] = p[j] => i = j}

\* initialize_vault_info ran through its per-vault loop in this step
ReconcileStep == InitializeVaultInfo /\ ledger # <<>>

\* C1: reconciling any permutation of the delivered ledger rows gives every vault
\* the same current_allocation as reconciling the rows in the delivered order.
C1_OrderIndependent ==
    [][ReconcileStep =>
          \A p \in Perms(Len(ledger)) : \A v \in DOMAIN vaults' :
              Reconcile(Permuted(ledger, p), v,
                        UpdateVaultsFrom(vaults, abs_vault_info)[v].current_allocation)
                 = vaults'[v].current_allocation]_vars

\* an older row was delivered after a newer one and vault 1 has been reconciled
C1_Witness ==
    /\ Len(ledger) >= 2
    /\ ledger[1].pool_id = 1 /\ ledger[1].created_at_parsed = 2
    /\ ledger[2].pool_id = 1 /\ ledger[2].created_at_parsed = 1
    /\ ledger[1].amount < 0 /\ ledger[2].amount > 0
    /\ 1 \in DOMAIN vaults
    /\ vaults[1].current_allocation # EmptyAllocation

\* a row of vault 1 that lies outside its most recent all-positive group
OutsideLatestPositive(rows, v) ==
    LET t == CHOOSE x \in PositiveGroups(rows, v) : \A y \in PositiveGroups(rows, v) : y <= x
    IN  ValidRows(rows, v) \ GroupAt(rows, v, t)

\* C2: when some timestamp group of the vault is all-positive, the reconciled
\* allocation is exactly the per-asset sums of the most recent such group.
C2_SnapshotPreference ==
    [][ReconcileStep =>
          \A v \in DOMAIN vaults' :
              PositiveGroups(ledger, v) # {} =>
                 LET t == CHOOSE x \in PositiveGroups(ledger, v) :
                              \A y \in PositiveGroups(ledger, v) : y <= x
                 IN  vaults'[v].current_allocation = SumsOver(ledger, GroupAt(ledger, v, t))]_vars

\* an older row of asset 28 precedes a later all-positive group over 28 and 29,
\* and vault 1 holds exactly the sums of that group
C2_Witness ==
    /\ 1 \in DOMAIN vaults
    /\ PositiveGroups(ledger, 1) # {}
    /\ OutsideLatestPositive(ledger, 1) # {}
    /\ \A i \in OutsideLatestPositive(ledger, 1) : ledger[i].created_at_parsed = 1
    /\ vaults[1].current_allocation = (28 :> 1 @@ 29 :> 1)
    /\ vaults[1].current_allocation = SumsOver(ledger, GroupAt(ledger, 1, 2))

\* C3: when no timestamp group of the vault is all-positive, the reconciled
\* allocation holds, for exactly the assets whose total is > 0, the sum of all rows.
C3_CumulativeFallback ==
    [][ReconcileStep =>
          \A v \in DOMAIN vaults' :
              PositiveGroups(ledger, v) = {} =>
                 vaults'[v].current_allocation = PositiveSumsOver(ledger, ValidRows(ledger, v))]_vars

\* no group of vault 1 is all-positive, asset 29 totals below zero and is left out,
\* asset 28 totals 1 and is kept
C3_Witness ==
    /\ 1 \in DOMAIN vaults
    /\ ValidRows(ledger, 1) # {}
    /\ PositiveGroups(ledger, 1) = {}
    /\ SumAt(ledger, ValidRows(ledger, 1), 29) < 0
    /\ vaults[1].current_allocation = (28 :> 1)
    /\ vaults[1].current_allocation = PositiveSumsOver(ledger, ValidRows(ledger, 1))

\* the ledger with every row that repeats an earlier row left out
RECURSIVE DeliveredOnce(_)
DeliveredOnce(rows) ==
    IF rows = <<>> THEN <<>>
    ELSE LET before == DeliveredOnce(SubSeq(rows, 1, Len(rows) - 1))
             e == rows[Len(rows)]
         IN  IF \E i \in 1..Len(before) : before[i] = e THEN before ELSE Append(before, e)

\* C24: a ledger in which an entry appears twice (same vault, asset, amount and
\* timestamp) reconciles every vault to the same current_allocation as the ledger
\* that holds the entry once.
C24_DuplicateDeliveryIdempotent ==
    [][ReconcileStep =>
          \A v \in DOMAIN vaults' :
              vaults'[v].current_allocation
                 = Reconcile(DeliveredOnce(ledger), v,
                             UpdateVaultsFrom(vaults, abs_vault_info)[v].current_allocation)]_vars

-----------------------------------------------------------------------------
(* Optimizer: registry, market data, reoptimization on a market-data update *)

\* Python values: the int n and the string 'n' of a pool identifier, and None
PyInt(n) == [t |-> "int", v |-> n]
PyStr(n) == [t |-> "str", v |-> n]
PyNone == [t |-> "None"]
\* a local variable that no statement has assigned yet
Unbound == [t |-> "unbound"]

\* str(1105) = '1105' = str('1105'); int('1105') = 1105 = int(1105)
str(p) == [t |-> "str", v |-> p.v]
int(p) == [t |-> "int", v |-> p.v]

\* Optimizer.vaults is a dict: its entries are kept in insertion order
RegIds(reg) == {reg[i].pool_id : i \in 1..Len(reg)}
RegIndex(reg, pool_id) == CHOOSE i \in 1..Len(reg) : reg[i].pool_id = pool_id
AllocationIn(reg, pool_id) ==
    IF pool_id \in RegIds(reg) THEN reg[RegIndex(reg, pool_id)].current_allocation
    ELSE EmptyAllocation

\* the value stored under a vault id: {'vault_info': ..., 'current_allocation': ...}
EntryDict(entry) ==
    [vault_info |-> entry.vault_info, current_allocation |-> entry.current_allocation]

\* None as a key of Optimizer.vaults (no vault id is 0)
NoneId == 0

\* Optimizer.update_vault: a dict without pool_id that wraps a vault_info is
\* unwrapped, and pool_id is then whatever the inner dict gives (None if it has none)
update_vault(reg, vault_info) ==
    LET info == IF "pool_id" \in DOMAIN vault_info THEN vault_info
                ELSE IF "vault_info" \in DOMAIN vault_info THEN vault_info.vault_info
                ELSE PyNone
    IN  IF info = PyNone THEN reg
        ELSE LET pool_id == IF "pool_id" \in DOMAIN info THEN info.pool_id ELSE NoneId
             IN  IF pool_id \in RegIds(reg)
                 THEN [reg EXCEPT ![RegIndex(reg, pool_id)].vault_info = info]
                 ELSE Append(reg, [pool_id |-> pool_id, vault_info |-> info,
                                   current_allocation |-> EmptyAllocation])

\* Optimizer.update_allocation
update_allocation(reg, pool_id, allocation_data) ==
    IF pool_id \notin RegIds(reg) THEN reg
    ELSE [reg EXCEPT ![RegIndex(reg, pool_id)].current_allocation = allocation_data]

\* Optimizer.update_market_data: a missing or NaN apy becomes 0.0, and the row is
\* appended to the frame stored under str(pool_id)
update_market_data(market, performance_data) ==
    IF "pool_id" \notin DOMAIN performance_data \/ "created_at" \notin DOMAIN performance_data
    THEN market
    ELSE LET apy == IF "apy" \notin DOMAIN performance_data THEN "num"
                    ELSE IF performance_data.apy = "NaN" THEN "num"
                    ELSE performance_data.apy
             df_row == [created_at |-> performance_data.created_at, apy |-> apy]
             pool_id_str == str(performance_data.pool_id)
         IN  IF pool_id_str \in DOMAIN market
             THEN [market EXCEPT ![pool_id_str] = Append(@, df_row)]
             ELSE market @@ (pool_id_str :> <<df_row>>)

\* pd.to_numeric(df['apy'], errors='coerce').dropna(): the rows whose apy is a number
NumericReturns(df) == SelectSeq(df, LAMBDA row : row.apy # "text")

\* returns.groupby(returns.index).last(): for each timestamp, the apy of its last row
LastByIndex(rows) ==
    [t \in {rows[i].created_at : i \in 1..Len(rows)} |->
        rows[CHOOSE i \in 1..Len(rows) :
                /\ rows[i].created_at = t
                /\ \A j \in (i + 1)..Len(rows) : rows[j].created_at # t].apy]

\* pd.DataFrame()
EmptyFrame == [columns |-> {}, index |-> {}, cell |-> <<>>]

\* Optimizer._prepare_returns: one column per allowed pool that has a numeric apy,
\* one row per timestamp of any column (pd.concat(axis=1)), NaN where a column has
\* no value at the timestamp
_prepare_returns(market, allowed_pools) ==
    IF DOMAIN market = {} \/ allowed_pools = <<>> THEN EmptyFrame
    ELSE LET filtered_data ==
                 {pool_id \in DOMAIN market : int(pool_id) \in SeqToSet(allowed_pools)}
             columns == {pool_id \in filtered_data : NumericReturns(market[pool_id]) # <<>>}
             series == [pool_id \in columns |-> LastByIndex(NumericReturns(market[pool_id]))]
             index == UNION {DOMAIN series[c] : c \in columns}
         IN  [columns |-> columns, index |-> index,
              cell |-> [t \in index |->
                          [c \in columns |-> IF t \in DOMAIN series[c] THEN series[c][t]
                                             ELSE "NaN"]]]

\* returns.isna().any().any() or np.isinf(returns.values).any()
HasNaNOrInf(returns) ==
    \E t \in returns.index, c \in returns.columns : returns.cell[t][c] # "num"

\* returns.replace([np.inf, -np.inf], np.nan).dropna(): the rows without NaN
DropNaNRows(returns) ==
    LET index == {t \in returns.index : \A c \in returns.columns : returns.cell[t][c] = "num"}
    IN  [columns |-> returns.columns, index |-> index,
         cell |-> [t \in index |-> returns.cell[t]]]

\* what rp.Portfolio / port.optimization answer: an exception, None, or a frame of
\* weights over the columns of the returns (here: everything on the first column)
SolverOutcomes == {"raise", "none", "first"}

FirstColumn(columns) == CHOOSE c \in columns : \A d \in columns : c.v <= d.v

\* the conversion of the solver's answer to weights_dict
WeightsDict(solver, columns, allowed_pools) ==
    IF solver = "first"
    THEN [c \in columns |-> IF c = FirstColumn(columns) THEN <<1, 1>> ELSE <<0, 1>>]
    ELSE [p \in SeqToSet(allowed_pools) |-> Frac(1, Len(allowed_pools))]

ErrorResult(pool_id, message) ==
    [pool_id |-> pool_id, status |-> "error", message |-> message]

\* total_amount: what the vault holds, or 1.0 when it holds nothing
TotalAmount(current_allocation) ==
    LET held == SumWeights(current_allocation, DOMAIN current_allocation)
    IN  IF FLe(held, <<0, 1>>) THEN <<1, 1>> ELSE held

\* new_allocation: {int(asset): float(weight * total_amount)}
NewAllocation(constrained_weights, total_amount) ==
    [asset \in {int(k) : k \in DOMAIN constrained_weights} |->
        FMul(constrained_weights[CHOOSE k \in DOMAIN constrained_weights : int(k) = asset],
             total_amount)]

\* optimize_vault that updates current_allocation before the market data, the
\* solver and the strategy have been checked
optimize_vault_patching(reg, market, pool_id, solver) ==
    LET i == RegIndex(reg, pool_id)
        vault == reg[i]
        vault_info == vault.vault_info
        adaptor_constraints == _get_adaptor_constraints(vault_info)
        allowed_pools == Get(vault_info, "allowed_pools", <<>>)
        missing_pools == {q \in SeqToSet(allowed_pools) : str(q) \notin DOMAIN market}
        returns == _prepare_returns(market, allowed_pools)
        strategy == Get(vault_info, "strategy", "None")
        weights_dict == WeightsDict(solver, returns.columns, allowed_pools)
        total_amount == TotalAmount(vault.current_allocation)
        \* the weights of the equal split are written pool by pool before the checks
        patched == [reg EXCEPT ![i].current_allocation =
                       [q \in {int(k) : k \in SeqToSet(allowed_pools)} |->
                           FMul(Frac(1, Len(allowed_pools)), total_amount)]]
    IN  IF DOMAIN adaptor_constraints = {}
        THEN [reg |-> reg,
              result |-> ErrorResult(pool_id, "No valid adaptor constraints")]
        ELSE IF missing_pools # {}
        THEN [reg |-> patched, result |-> ErrorResult(pool_id, "Missing market data")]
        ELSE IF returns.columns = {}
        THEN [reg |-> patched, result |-> ErrorResult(pool_id, "No valid returns data")]
        ELSE IF HasNaNOrInf(returns) /\ Cardinality(DropNaNRows(returns).index) < 2
        THEN [reg |-> patched, result |-> ErrorResult(pool_id, "Insufficient valid data")]
        ELSE IF solver = "raise"
        THEN [reg |-> patched, result |-> ErrorResult(pool_id, "Optimization error")]
        ELSE IF strategy \notin {"min_risk", "max_sharpe"}
        THEN [reg |-> patched, result |-> ErrorResult(pool_id, "Unknown strategy")]
        ELSE \* each value is computed once: the sets it is drawn from are singletons
             CHOOSE out \in
                {[reg |-> [reg EXCEPT ![i].current_allocation = new_allocation],
                  result |-> [pool_id |-> pool_id, allocation |-> new_allocation,
                              status |-> "success"]] :
                    new_allocation \in
                       {NewAllocation(constrained_weights, total_amount) :
                           constrained_weights \in
                              {_apply_adaptor_constraints(weights_dict, adaptor_constraints,
                                                          vault_info)}}} : TRUE

\* the steps of handle_market_data for a registered vault, from the adaptor
\* constraints to the overwrite of current_allocation
optimize_vault(reg, market, pool_id, solver) ==
    LET i == RegIndex(reg, pool_id)
        vault == reg[i]
        vault_info == vault.vault_info
        adaptor_constraints == _get_adaptor_constraints(vault_info)
        allowed_pools == Get(vault_info, "allowed_pools", <<>>)
        missing_pools == {q \in SeqToSet(allowed_pools) : str(q) \notin DOMAIN market}
        returns == _prepare_returns(market, allowed_pools)
        strategy == Get(vault_info, "strategy", "None")
        weights_dict == WeightsDict(solver, returns.columns, allowed_pools)
        total_amount == TotalAmount(vault.current_allocation)
    IN  IF DOMAIN adaptor_constraints = {}
        THEN [reg |-> reg,
              result |-> ErrorResult(pool_id, "No valid adaptor constraints")]
        ELSE IF missing_pools # {}
        THEN [reg |-> reg, result |-> ErrorResult(pool_id, "Missing market data")]
        ELSE IF returns.columns = {}
        THEN [reg |-> reg, result |-> ErrorResult(pool_id, "No valid returns data")]
        ELSE IF HasNaNOrInf(returns) /\ Cardinality(DropNaNRows(returns).index) < 2
        THEN [reg |-> reg, result |-> ErrorResult(pool_id, "Insufficient valid data")]
        ELSE IF solver = "raise"
        THEN [reg |-> reg, result |-> ErrorResult(pool_id, "Optimization error")]
        ELSE IF strategy \notin {"min_risk", "max_sharpe"}
        THEN [reg |-> reg, result |-> ErrorResult(pool_id, "Unknown strategy")]
        ELSE \* each value is computed once: the sets it is drawn from are singletons
             CHOOSE out \in
                {[reg |-> [reg EXCEPT ![i].current_allocation = new_allocation],
                  result |-> [pool_id |-> pool_id, allocation |-> new_allocation,
                              status |-> "success"]] :
                    new_allocation \in
                       {NewAllocation(constrained_weights, total_amount) :
                           constrained_weights \in
                              {_apply_adaptor_constraints(weights_dict, adaptor_constraints,
                                                          vault_info)}}} : TRUE

\* one pass of handle_market_data from "if vault_data:" to its return; pool_id is
\* the caller frame's local variable (Unbound when nothing assigned it)
optimize_pass(reg, market, vault_data, pool_id, solver) ==
    LET reg1 == IF vault_data = PyNone THEN reg ELSE update_vault(reg, vault_data)
    IN  IF vault_data = PyNone
        THEN \* 'vault_info' in None raises TypeError; the handler formats pool_id
             IF pool_id = Unbound
             THEN [reg |-> reg1, result |-> [raised |-> "UnboundLocalError"], vault |-> 0]
             ELSE [reg |-> reg1, vault |-> 0,
                   result |-> [asset_id |-> pool_id, status |-> "error",
                               message |-> "argument of type 'NoneType' is not iterable"]]
        ELSE IF "pool_id" \notin DOMAIN vault_data /\ "vault_info" \notin DOMAIN vault_data
        THEN [reg |-> reg1, vault |-> 0,
              result |-> [status |-> "error", message |-> "Missing pool_id in vault data"]]
        ELSE LET vault_info == IF "pool_id" \in DOMAIN vault_data THEN vault_data
                               ELSE vault_data.vault_info
                 vault_id == vault_info.pool_id
             IN  IF vault_id \notin RegIds(reg1)
                 THEN [reg |-> reg1, vault |-> 0,
                       result |-> ErrorResult(vault_id, "Vault not found")]
                 ELSE CHOOSE out \in
                         {[reg |-> optimized.reg, result |-> optimized.result,
                           vault |-> vault_id] :
                             optimized \in {optimize_vault(reg1, market, vault_id, solver)}} :
                         TRUE

\* the vault ids whose allowed_pools, as strings, contain str(pool_id), in dict order
RECURSIVE AffectedVaults(_, _)
AffectedVaults(reg, pool_id) ==
    IF reg = <<>> THEN <<>>
    ELSE LET allowed_pools == Get(Head(reg).vault_info, "allowed_pools", <<>>)
             listed == \E i \in 1..Len(allowed_pools) : str(allowed_pools[i]) = str(pool_id)
         IN  (IF listed THEN <<Head(reg).pool_id>> ELSE <<>>)
             \o AffectedVaults(Tail(reg), pool_id)

\* the recursive calls handle_market_data(None, vault_info) for the affected vaults
RECURSIVE Cascade(_, _, _, _, _)
Cascade(reg, market, affected_vaults, solver, results) ==
    IF affected_vaults = <<>> THEN [reg |-> reg, results |-> results]
    ELSE LET affected_vault_id == Head(affected_vaults)
             vault_info == reg[RegIndex(reg, affected_vault_id)].vault_info
         IN  CHOOSE out \in
                {Cascade(pass.reg, market, Tail(affected_vaults), solver,
                         Append(results, [vault |-> affected_vault_id,
                                          result |-> pass.result])) :
                    pass \in {optimize_pass(reg, market, vault_info, Unbound, solver)}} : TRUE

\* the pass that follows the cascade, and what the call leaves and returns
FinalPass(reg, market, results, vault_data, pool_id, solver) ==
    CHOOSE out \in
       {[reg |-> pass.reg, market |-> market, result |-> pass.result,
         results |-> results, vault |-> pass.vault] :
           pass \in {optimize_pass(reg, market, vault_data, pool_id, solver)}} : TRUE

\* the vaults listing the id of one of the given vaults
RECURSIVE ListingVaults(_, _)
ListingVaults(reg, vault_ids) ==
    IF vault_ids = <<>> THEN <<>>
    ELSE AffectedVaults(reg, PyInt(Head(vault_ids))) \o ListingVaults(reg, Tail(vault_ids))

\* a variant whose recursive calls fan out once more, to the vaults that list a
\* reoptimized vault's id
handle_market_data_cascading(reg, market, data, vault_data, solver) ==
    IF data = PyNone
    THEN FinalPass(reg, market, <<>>, vault_data, Unbound, solver)
    ELSE LET market1 == update_market_data(market, data)
             pool_id == data.pool_id
             affected_vaults == AffectedVaults(reg, pool_id)
             shadowed == IF reg = <<>> THEN vault_data ELSE EntryDict(reg[Len(reg)])
         IN  CHOOSE out \in
                {FinalPass(cascade.reg, market1, cascade.results, shadowed, pool_id, solver) :
                    cascade \in {Cascade(reg, market1,
                                         affected_vaults \o ListingVaults(reg, affected_vaults),
                                         solver, <<>>)}} : TRUE

\* Optimizer.handle_market_data(data, vault_data): registry and market data after the
\* call, the value returned, and the local dict results
handle_market_data(reg, market, data, vault_data, solver) ==
    IF data = PyNone
    THEN FinalPass(reg, market, <<>>, vault_data, Unbound, solver)
    ELSE LET market1 == update_market_data(market, data)
             pool_id == data.pool_id
             affected_vaults == AffectedVaults(reg, pool_id)
             \* the loop variable of "for vault_id, vault_data in self.vaults.items()"
             \* is the parameter vault_data: after the loop it is the last entry
             shadowed == IF reg = <<>> THEN vault_data ELSE EntryDict(reg[Len(reg)])
         IN  CHOOSE out \in
                {FinalPass(cascade.reg, market1, cascade.results, shadowed, pool_id, solver) :
                    cascade \in {Cascade(reg, market1, affected_vaults, solver, <<>>)}} : TRUE

\* int(allocated_pool_id) and float(amount) of a reconciled allocation
ToOptimizerAllocation(allocation) ==
    [q \in {PyInt(k) : k \in DOMAIN allocation} |-> FInt(allocation[q.v])]

\* the body of the loop over self.vaults in Optimizer.initialize_vault_info: an
\* exception (int(pool_id)) or an empty history leaves the entry as it is
reconcile_entry(rows, entry) ==
    IF ~IntParses(entry.pool_id) THEN entry
    ELSE LET vault_allocations ==
                 VaultAllocations(DropInvalidTimestamps(rows), entry.pool_id)
         IN  IF vault_allocations = <<>> THEN entry
             ELSE [entry EXCEPT !.current_allocation =
                      ToOptimizerAllocation(ReconcileRows(vault_allocations))]

RECURSIVE RegisterAll(_, _)
RegisterAll(reg, ids) ==
    IF ids = {} THEN reg
    ELSE LET v == CHOOSE x \in ids : \A y \in ids : x <= y
         IN  RegisterAll(update_vault(reg, VaultInfoOf(v)), ids \ {v})

\* Optimizer.initialize_vault_info
initialize_vault_info(client, table, rows, reg) ==
    IF ~client \/ table = {} THEN reg
    ELSE LET registered == RegisterAll(reg, table)
         IN  IF rows = <<>> THEN registered
             ELSE [i \in 1..Len(registered) |-> reconcile_entry(rows, registered[i])]

-----------------------------------------------------------------------------
(* Actions of the Optimizer *)

other_vars == <<supabase_client, abs_vault_info, ledger, vaults, flow_call, flow_result,
                published, opt_input, opt_weights, evaluator_vars, event_vars>>

OptimizerUpdateVault(vault_info) ==
    /\ opt_call = NoCall
    /\ opt_vaults' = update_vault(opt_vaults, vault_info)
    /\ opt_call' = [op |-> "update_vault", before |-> opt_vaults]
    /\ opt_result' = NoResult
    /\ UNCHANGED <<market_data, other_vars>>

OptimizerUpdateAllocation(pool_id, allocation_data) ==
    /\ opt_call = NoCall
    /\ opt_vaults' = update_allocation(opt_vaults, pool_id, allocation_data)
    /\ opt_call' = [op |-> "update_allocation", before |-> opt_vaults]
    /\ opt_result' = NoResult
    /\ UNCHANGED <<market_data, other_vars>>

OptimizerInitializeVaultInfo ==
    /\ opt_call = NoCall
    /\ opt_vaults' = initialize_vault_info(supabase_client, abs_vault_info, ledger, opt_vaults)
    /\ opt_call' = [op |-> "initialize_vault_info", before |-> opt_vaults]
    /\ opt_result' = NoResult
    /\ UNCHANGED <<market_data, other_vars>>

\* the frame of the record's pool holds fewer than MaxRows rows
RoomInFrame(data) ==
    IF data = PyNone THEN TRUE
    ELSE IF str(data.pool_id) \notin DOMAIN market_data THEN TRUE
    ELSE Len(market_data[str(data.pool_id)]) < MaxRows

\* one call of Optimizer.handle_market_data, the cascade included
HandleMarketData(data, vault_data) ==
    /\ opt_call = NoCall
    /\ RoomInFrame(data)
    /\ \E solver \in SolverOutcomes :
        \E call \in {handle_market_data(opt_vaults, market_data, data, vault_data, solver)} :
            /\ opt_vaults' = call.reg
            /\ market_data' = call.market
            /\ opt_call' = [op |-> "handle_market_data", before |-> opt_vaults,
                            data |-> data, vault_data |-> vault_data, solver |-> solver,
                            results |-> call.results, vault |-> call.vault]
            /\ opt_result' = call.result
    /\ UNCHANGED other_vars

\* the caller has taken the result; the next call can be handled
OptimizerReturns ==
    /\ opt_call # NoCall
    /\ opt_call' = NoCall
    /\ opt_result' = NoResult
    /\ UNCHANGED <<opt_vaults, market_data, other_vars>>

-----------------------------------------------------------------------------
(* Reoptimization: vault configurations, market records, calls *)

Adaptor == <<"kamino-lend">>
FullCap == <<100>>

\* vault 1 lists 28 and 29; vault 2 lists 28, as a string or under a strategy the
\* optimizer does not know; vault 3 lists 29 only; its record in abs_vault_info has
\* neither adaptors nor allowed_pools
CascadeVaultInfos ==
    {[pool_id |-> 1, strategy |-> "min_risk", adaptors |-> Adaptor, weight |-> FullCap,
      allowed_pools |-> <<PyInt(28), PyInt(29)>>],
     [pool_id |-> 2, strategy |-> "max_sharpe", adaptors |-> Adaptor, weight |-> FullCap,
      allowed_pools |-> <<PyStr(28)>>],
     [pool_id |-> 2, strategy |-> "momentum", adaptors |-> Adaptor, weight |-> FullCap,
      allowed_pools |-> <<PyInt(28)>>],
     [pool_id |-> 3, strategy |-> "min_risk", adaptors |-> Adaptor, weight |-> FullCap,
      allowed_pools |-> <<PyInt(29)>>]}

MarketRecords ==
    {[pool_id |-> PyStr(28), created_at |-> 1], [pool_id |-> PyInt(29), created_at |-> 1]}

HandleMarketDataInputs ==
    (MarketRecords \X {PyNone}) \cup ({PyNone} \X CascadeVaultInfos) \cup {<<PyNone, PyNone>>}

OptimizerUpdateAllocationInputs == {<<2, (PyInt(28) :> <<40, 1>>)>>}

\* the history of vault 1: one snapshot of 40 in pool 28 and 20 in pool 29
CascadeLedger ==
    <<[pool_id |-> 1, allocated_pool_id |-> 28, amount |-> 40, created_at_parsed |-> 1],
      [pool_id |-> 1, allocated_pool_id |-> 29, amount |-> 20, created_at_parsed |-> 1]>>

InitCascade ==
    /\ supabase_client = TRUE
    /\ abs_vault_info = {3}
    /\ ledger = CascadeLedger
    /\ vaults = [v \in {} |-> 0]
    /\ flow_call = NoCall
    /\ flow_result = NoResult
    /\ published = <<>>
    /\ opt_input = [status |-> "none"]
    /\ opt_weights = [status |-> "none"]
    /\ zmq_publisher = "none"
    /\ sink = <<>>
    /\ opt_vaults = <<>>
    /\ market_data = NoMarketData
    /\ opt_call = NoCall
    /\ opt_result = NoResult
    /\ NoEventHandler

NextCascade ==
    \/ \E vault_info \in CascadeVaultInfos : OptimizerUpdateVault(vault_info)
    \/ \E input \in OptimizerUpdateAllocationInputs :
          OptimizerUpdateAllocation(input[1], input[2])
    \/ OptimizerInitializeVaultInfo
    \/ \E input \in HandleMarketDataInputs : HandleMarketData(input[1], input[2])
    \/ OptimizerReturns

SpecCascade == InitCascade /\ [][NextCascade]_vars

\* --- the Optimizer call being handled; opt_call.before is the registry it started from ---

MarketCall == opt_call.op = "handle_market_data" /\ opt_call.data # PyNone
UpdatedAsset == opt_call.data.pool_id

\* the vault's allowed_pools contains the asset, int and string forms taken as equal
ListsAsset(entry, asset) ==
    LET allowed_pools == Get(entry.vault_info, "allowed_pools", <<>>)
    IN  \E i \in 1..Len(allowed_pools) : allowed_pools[i].v = asset.v

VaultsListing(reg, asset) ==
    {reg[i].pool_id : i \in {j \in 1..Len(reg) : ListsAsset(reg[j], asset)}}

\* the statuses of the passes the call ran for vault v
PassStatuses(v) ==
    {opt_call.results[i].result.status :
        i \in {j \in 1..Len(opt_call.results) : opt_call.results[j].vault = v}}
    \cup (IF opt_call.vault = v THEN {opt_result.status} ELSE {})

\* C14: a market-data update for asset X returns a map of results whose key set is
\* exactly the set of registered vaults whose allowed_pools contains X.
C14_ResultsKeyedByAffectedVaults ==
    MarketCall =>
        /\ "results" \in DOMAIN opt_result
        /\ DOMAIN opt_result.results = VaultsListing(opt_call.before, UpdatedAsset)

\* C15: a market-data update for asset X does not reoptimize a registered vault whose
\* allowed_pools does not contain X, and leaves its current_allocation unchanged,
\* whatever the vault's position in the registry.
C15_OnlyAffectedVaultsReoptimized ==
    MarketCall =>
        \A v \in RegIds(opt_call.before) \ VaultsListing(opt_call.before, UpdatedAsset) :
            /\ PassStatuses(v) = {}
            /\ AllocationIn(opt_vaults, v) = AllocationIn(opt_call.before, v)

\* C18: handle_market_data never raises to its caller; every failure is returned as
\* a result with status error.
C18_NeverRaises ==
    opt_call.op = "handle_market_data" =>
        /\ "raised" \notin DOMAIN opt_result
        /\ opt_result.status \in {"success", "error"}

\* C19: a vault whose optimization failed in a call of handle_market_data, or whose
\* reconciliation failed in initialize_vault_info, has the current_allocation it had
\* before the call; a vault whose optimization succeeded holds exactly the
\* allocation map of its result.
C19_FailureLeavesAllocation ==
    /\ opt_call.op = "handle_market_data" =>
          /\ \A v \in RegIds(opt_vaults) :
                (PassStatuses(v) = {"error"}) =>
                    AllocationIn(opt_vaults, v) = AllocationIn(opt_call.before, v)
          /\ "raised" \in DOMAIN opt_result => opt_vaults = opt_call.before
          /\ (opt_call.vault # 0 /\ opt_result.status = "success") =>
                AllocationIn(opt_vaults, opt_call.vault) = opt_result.allocation
    /\ opt_call.op = "initialize_vault_info" =>
          \A v \in RegIds(opt_vaults) :
             ~IntParses(v) => AllocationIn(opt_vaults, v) = AllocationIn(opt_call.before, v)

\* in one call a vault holding an allocation fails and keeps it, while another vault
\* is reoptimized and gets a new one
C19_Witness ==
    /\ MarketCall
    /\ \E v \in RegIds(opt_call.before) :
          /\ PassStatuses(v) = {"error"}
          /\ AllocationIn(opt_call.before, v) # EmptyAllocation
          /\ AllocationIn(opt_vaults, v) = AllocationIn(opt_call.before, v)
    /\ \E w \in RegIds(opt_call.before) :
          /\ "success" \in PassStatuses(w)
          /\ AllocationIn(opt_vaults, w) # AllocationIn(opt_call.before, w)

\* C20: current_allocation changes only in a full ledger reconciliation or when a
\* reallocation result is recorded; computing an optimization target on a
\* market-data update and a configuration update leave it as it was.
C20_AllocationChangesOnlyOnReconcileOrResult ==
    (opt_call # NoCall /\ opt_call.op \notin {"initialize_vault_info", "update_allocation"}) =>
        \A v \in RegIds(opt_call.before) :
            AllocationIn(opt_vaults, v) = AllocationIn(opt_call.before, v)

-----------------------------------------------------------------------------
(* Returns: one vault over pools 28 and 29, performance records with their apy *)

ReturnsVaultInfo ==
    [pool_id |-> 1, strategy |-> "min_risk", adaptors |-> Adaptor, weight |-> FullCap,
     allowed_pools |-> <<PyInt(28), PyInt(29)>>]

\* records of abs_vault_performance_history: pool 28 reports a number at either
\* timestamp; pool 29 reports a number, NaN, an infinity or a value that is not a number
ReturnRecords ==
    [pool_id : {PyInt(28)}, created_at : Timestamps, apy : {"num"}]
    \cup [pool_id : {PyInt(29)}, created_at : Timestamps, apy : {"num", "NaN", "inf", "text"}]

InitReturns ==
    /\ supabase_client = TRUE
    /\ abs_vault_info = {}
    /\ ledger = <<>>
    /\ vaults = [v \in {} |-> 0]
    /\ flow_call = NoCall
    /\ flow_result = NoResult
    /\ published = <<>>
    /\ opt_input = [status |-> "none"]
    /\ opt_weights = [status |-> "none"]
    /\ zmq_publisher = "none"
    /\ sink = <<>>
    /\ opt_vaults = <<>>
    /\ market_data = NoMarketData
    /\ opt_call = NoCall
    /\ opt_result = NoResult
    /\ NoEventHandler

NextReturns ==
    \/ OptimizerUpdateVault(ReturnsVaultInfo)
    \/ \E data \in ReturnRecords : HandleMarketData(data, PyNone)
    \/ HandleMarketData(PyNone, ReturnsVaultInfo)
    \/ OptimizerReturns

SpecReturns == InitReturns /\ [][NextReturns]_vars

\* the passes of the call being handled: the vault optimized and the result returned
Passes ==
    {opt_call.results[i] : i \in 1..Len(opt_call.results)}
    \cup {[vault |-> opt_call.vault, result |-> opt_result]}

AllowedPoolsOf(v) ==
    Get(opt_vaults[RegIndex(opt_vaults, v)].vault_info, "allowed_pools", <<>>)

\* C23: a result of handle_market_data with status error holds no allocation, and a
\* result with status success holds an allocation with one amount for every pool
\* of the vault's allowed_pools.
C23_NoPartialResult ==
    opt_call.op = "handle_market_data" =>
        \A pass \in Passes :
            "status" \in DOMAIN pass.result =>
                /\ pass.result.status = "error" => "allocation" \notin DOMAIN pass.result
                /\ pass.result.status = "success" =>
                      /\ "allocation" \in DOMAIN pass.result
                      /\ pass.vault # 0
                      /\ \A p \in SeqToSet(AllowedPoolsOf(pass.vault)) :
                            int(p) \in DOMAIN pass.result.allocation

\* the timestamps at which every allowed pool has a finite apy
ValidAlignedRows(market, allowed_pools) ==
    {t \in Timestamps :
        \A p \in SeqToSet(allowed_pools) :
            /\ str(p) \in DOMAIN market
            /\ \E i \in 1..Len(market[str(p)]) :
                  /\ market[str(p)][i].created_at = t
                  /\ market[str(p)][i].apy = "num"
                  /\ \A j \in (i + 1)..Len(market[str(p)]) :
                        market[str(p)][j].created_at = t => market[str(p)][j].apy = "text"}

\* the messages of the error results that follow the construction of the portfolio
SolverMessages == {"Optimization error", "Unknown strategy"}

\* C29: a pass of handle_market_data over a vault with fewer than 2 valid aligned
\* return rows ends in an error result that precedes the solver, whether or not a
\* NaN or an infinite value was present.
C29_FewRowsAbortBeforeSolver ==
    opt_call.op = "handle_market_data" =>
        \A pass \in Passes :
            (/\ pass.vault # 0
             /\ Cardinality(ValidAlignedRows(market_data, AllowedPoolsOf(pass.vault))) < 2)
            => /\ "status" \in DOMAIN pass.result
               /\ pass.result.status = "error"
               /\ pass.result.message \notin SolverMessages

-----------------------------------------------------------------------------
(* Event handling: Observer, observables, handler closures, MessageBroker *)

MaxEvents == 2

\* the object a call of an "async def" method returns when it is not awaited: the
\* body of the method has not run
Coroutine == [t |-> "coroutine"]

\* the methods of Optimizer declared with "async def"
OptimizerAsyncMethods ==
    {"initialize_market_data", "handle_market_data", "handle_vault_update",
     "initialize_vault_info"}

\* the public methods of Evaluator
EvaluatorMethods ==
    {"initialize_zmq_publisher", "publish_zmq_message", "initialize_vault_info",
     "update_vault", "update_allocation", "calculate_utilization",
     "calculate_reallocation_needs", "check_liquidity", "evaluate_portfolio",
     "process_reallocation", "run_reallocation_flow"}

\* PortfolioStateObservable.process_allocation_history_record: the calls of notify
process_allocation_history_record(record) ==
    IF "pool_id" \notin DOMAIN record THEN <<>>
    ELSE IF record.pool_id = record.allocated_pool_id /\ record.amount > 0
    THEN <<[event_type |-> "DEPOSIT_EVENT", event_data |-> record]>>
    ELSE IF /\ record.pool_id = record.allocated_pool_id
            /\ record.amount < 0
            /\ record.status = "PENDING"
    THEN <<[event_type |-> "WITHDRAWAL_EVENT", event_data |-> record]>>
    ELSE <<>>

\* VaultObservable.process_vault_info_record: the event data carries pool_id,
\* adaptors and allowed_pools of the record (and name, address, ...), not its strategy
process_vault_info_record(record) ==
    IF "pool_id" \notin DOMAIN record THEN <<>>
    ELSE <<[event_type |-> "VAULT_INFO_RECORD",
            event_data |-> [pool_id |-> record.pool_id, adaptors |-> record.adaptors,
                            allowed_pools |-> record.allowed_pools]]>>

\* MarketDataObservable.process_performance_history_record
process_performance_history_record(record) ==
    IF "pool_id" \notin DOMAIN record THEN <<>>
    ELSE <<[event_type |-> "NEW_PERFORMANCE_HISTORY_RECORD",
            event_data |-> [pool_id |-> record.pool_id, apy |-> record.apy,
                            timestamp |-> record.created_at]]>>

\* Observer._handle_performance_history / _handle_allocation_history /
\* _handle_vault_info: the record of the payload goes to the observable of its table
Notifications(payload) ==
    IF payload.table = "abs_vault_allocation_history"
    THEN process_allocation_history_record(payload.new)
    ELSE IF payload.table = "abs_vault_info"
    THEN process_vault_info_record(payload.new)
    ELSE process_performance_history_record(payload.new)

\* the method of the optimizer service each OptimizerInterface method calls
ServiceMethod(event_type) ==
    IF event_type = "NEW_PERFORMANCE_HISTORY_RECORD" THEN "handle_market_data"
    ELSE "handle_vault_update"

\* OptimizerInterface.handle_market_data_update / handle_deposit_event /
\* handle_withdrawal_event / handle_vault_info_update: the service's method is
\* called without await; without a service the event data is returned
OptimizerInterfaceResult(services, event_type, event_data) ==
    IF services.optimizer_service = "None" THEN event_data
    ELSE IF ServiceMethod(event_type) \in OptimizerAsyncMethods THEN Coroutine
    ELSE event_data

\* EvaluatorInterface.evaluate_optimization_result: optimization_result.get raises
\* AttributeError on a coroutine; evaluator_service.evaluate is called when the
\* service has such a method; otherwise the optimization result is returned
evaluate_optimization_result(services, optimization_result) ==
    IF optimization_result = Coroutine THEN [raised |-> "AttributeError"]
    ELSE IF services.evaluator_service # "None" /\ "evaluate" \in EvaluatorMethods
    THEN [evaluated |-> optimization_result]
    ELSE optimization_result

\* the message type each handler closure publishes
MessageType(event_type) ==
    IF event_type = "NEW_PERFORMANCE_HISTORY_RECORD" THEN "market_data_processed"
    ELSE IF event_type = "DEPOSIT_EVENT" THEN "deposit_processed"
    ELSE IF event_type = "WITHDRAWAL_EVENT" THEN "withdrawal_processed"
    ELSE "vault_info_processed"

\* the stages at which a handler closure gives up control before it has returned:
\* the closures are plain functions and await nothing (a closure that awaited the
\* optimizer's result would give up control before its evaluate stage)
SuspensionPointsAwaitingOptimizer == {"evaluate"}
SuspensionPoints == {}

-----------------------------------------------------------------------------
(* Actions of the event handling system *)

event_other_vars == <<supabase_client, abs_vault_info, vaults, flow_call, flow_result,
                      published, opt_input, opt_weights, evaluator_vars, market_data,
                      opt_call, opt_result, eh_services, component_vars>>

\* EventHandler.setup: the optimizer service, when there is one, loads its vaults and
\* reconciles them from the ledger (the performance history is empty at that time);
\* then the Observer and the MessageBroker are started
Setup ==
    /\ observer = "none"
    /\ observer' = "started"
    /\ opt_vaults' =
          IF eh_services.optimizer_service = "None" THEN opt_vaults
          ELSE initialize_vault_info(supabase_client, abs_vault_info, ledger, opt_vaults)
    /\ UNCHANGED <<event_other_vars, ledger, inbox, received, handlers, last_notified,
                   last_finished, processing_queue, broker_sent>>

\* the row of abs_vault_allocation_history a record is
LedgerRow(record) ==
    [pool_id |-> record.pool_id, allocated_pool_id |-> record.allocated_pool_id,
     amount |-> record.amount, created_at_parsed |-> record.created_at_parsed]

\* a record is inserted into one of the three tables; the realtime client receives
\* the INSERT payload
Receive(payload) ==
    /\ observer = "started"
    /\ received < MaxEvents
    /\ received' = received + 1
    /\ inbox' = Append(inbox, payload)
    /\ ledger' = IF payload.table = "abs_vault_allocation_history"
                 THEN Append(ledger, LedgerRow(payload.new))
                 ELSE ledger
    /\ UNCHANGED <<event_other_vars, opt_vaults, observer, handlers, last_notified,
                   last_finished, processing_queue, broker_sent>>

\* no handler closure is in the middle of its run
AllSuspended == \A i \in 1..Len(handlers) : handlers[i].pc \in SuspensionPoints

\* the Observer's callback for the payload: the observable notifies, and each
\* notification enters the handler closure registered for its event type
Dispatch ==
    /\ inbox # <<>>
    /\ AllSuspended
    /\ \E notifications \in {Notifications(Head(inbox))} :
          /\ last_notified' =
                [table |-> Head(inbox).table, record |-> Head(inbox).new,
                 notified |-> [i \in 1..Len(notifications) |-> notifications[i].event_type]]
          /\ handlers' = handlers \o
                [i \in 1..Len(notifications) |->
                    [event_type |-> notifications[i].event_type,
                     event_data |-> notifications[i].event_data,
                     pc |-> "optimize", opt_result |-> PyNone, eval_result |-> PyNone]]
    /\ inbox' = Tail(inbox)
    /\ UNCHANGED <<event_other_vars, ledger, opt_vaults, observer, received,
                   last_finished, processing_queue, broker_sent>>

\* handler i has control
Runs(i) == \A j \in 1..Len(handlers) : j # i => handlers[j].pc \in SuspensionPoints

Without(list, i) == [j \in 1..(Len(list) - 1) |-> IF j < i THEN list[j] ELSE list[j + 1]]

\* opt_result = self.optimizer.handle_..._event(event_data)
HandlerOptimize(i) ==
    /\ handlers[i].pc = "optimize"
    /\ Runs(i)
    /\ handlers' =
          [handlers EXCEPT ![i].pc = "evaluate",
                           ![i].opt_result =
                               OptimizerInterfaceResult(eh_services, handlers[i].event_type,
                                                        handlers[i].event_data)]
    /\ UNCHANGED <<event_other_vars, ledger, opt_vaults, observer, inbox, received,
                   last_notified, last_finished, processing_queue, broker_sent>>

\* eval_result = self.evaluator.evaluate_optimization_result(opt_result); an
\* exception leaves the closure and is logged by Observable.notify
HandlerEvaluate(i) ==
    /\ handlers[i].pc = "evaluate"
    /\ Runs(i)
    /\ \E eval_result \in {evaluate_optimization_result(eh_services, handlers[i].opt_result)} :
          IF "raised" \in DOMAIN eval_result
          THEN /\ handlers' = Without(handlers, i)
               /\ last_finished' = [handlers[i] EXCEPT !.pc = "raised"]
          ELSE /\ handlers' = [handlers EXCEPT ![i].pc = "publish",
                                               ![i].eval_result = eval_result]
               /\ UNCHANGED last_finished
    /\ UNCHANGED <<event_other_vars, ledger, opt_vaults, observer, inbox, received,
                   last_notified, processing_queue, broker_sent>>

\* self.message_broker.publish(message_type, eval_result, callbacks)
HandlerPublish(i) ==
    /\ handlers[i].pc = "publish"
    /\ Runs(i)
    /\ processing_queue' =
          Append(processing_queue, [message_type |-> MessageType(handlers[i].event_type),
                                    message_data |-> handlers[i].eval_result])
    /\ handlers' = Without(handlers, i)
    /\ last_finished' = [handlers[i] EXCEPT !.pc = "returned"]
    /\ UNCHANGED <<event_other_vars, ledger, opt_vaults, observer, inbox, received,
                   last_notified, broker_sent>>

\* MessageBroker._process_queue, one message: the callbacks, then ZeroMQ if enabled
ProcessQueue ==
    /\ observer = "started"
    /\ processing_queue # <<>>
    /\ processing_queue' = Tail(processing_queue)
    /\ broker_sent' =
          IF eh_services.zmq_enabled
          THEN [topic |-> Head(processing_queue).message_type,
                data |-> Head(processing_queue).message_data]
          ELSE broker_sent
    /\ UNCHANGED <<event_other_vars, ledger, opt_vaults, observer, inbox, received,
                   handlers, last_notified, last_finished>>

-----------------------------------------------------------------------------
(* Event handling: services, records *)

\* rows inserted into abs_vault_allocation_history for vault 1
AllocationRecords ==
    [pool_id : {1}, allocated_pool_id : {1, 28}, amount : {-1, 0, 1},
     status : {"PENDING", "pending", "COMPLETED"}, created_at_parsed : {2}]

Payloads ==
    {[table |-> "abs_vault_allocation_history", new |-> record] :
        record \in AllocationRecords}
    \cup {[table |-> "abs_vault_info", new |-> ReturnsVaultInfo]}
    \cup {[table |-> "performance_history",
           new |-> [pool_id |-> PyInt(28), created_at |-> 1, apy |-> "num"]]}

\* EventHandler.__init__: with a Supabase service an Optimizer is created; the
\* evaluator service is the one of the services dict, if any
InitEventHandler ==
    /\ supabase_client \in BOOLEAN
    /\ abs_vault_info = {1}
    /\ ledger = CascadeLedger
    /\ vaults = [v \in {} |-> 0]
    /\ flow_call = NoCall
    /\ flow_result = NoResult
    /\ published = <<>>
    /\ opt_input = [status |-> "none"]
    /\ opt_weights = [status |-> "none"]
    /\ zmq_publisher = "none"
    /\ sink = <<>>
    /\ opt_vaults = <<>>
    /\ market_data = NoMarketData
    /\ opt_call = NoCall
    /\ opt_result = NoResult
    /\ eh_services \in
          [optimizer_service : {IF supabase_client THEN "Optimizer" ELSE "None"},
           evaluator_service : {"None", "Evaluator"},
           zmq_enabled : BOOLEAN]
    /\ observer = "none"
    /\ inbox = <<>>
    /\ received = 0
    /\ handlers = <<>>
    /\ last_notified = [table |-> "none"]
    /\ last_finished = [pc |-> "none"]
    /\ processing_queue = <<>>
    /\ broker_sent = [topic |-> "none"]
    /\ NoComponents

NextEventHandler ==
    \/ Setup
    \/ \E payload \in Payloads : Receive(payload)
    \/ Dispatch
    \/ \E i \in 1..Len(handlers) : HandlerOptimize(i)
    \/ \E i \in 1..Len(handlers) : HandlerEvaluate(i)
    \/ \E i \in 1..Len(handlers) : HandlerPublish(i)
    \/ ProcessQueue

SpecEventHandler == InitEventHandler /\ [][NextEventHandler]_vars

\* --- the record last handed to an observable, the handler that ended last ---

AllocationHandled == last_notified.table = "abs_vault_allocation_history"

\* the status "pending", in either of the spellings in use
IsPending(status) == status \in {"pending", "PENDING"}

\* C25: process_allocation_history_record notifies exactly one DEPOSIT_EVENT for a
\* record with pool_id = allocated_pool_id and amount > 0, exactly one
\* WITHDRAWAL_EVENT for a record with pool_id = allocated_pool_id, amount < 0 and a
\* pending status ('pending' or 'PENDING'), and nothing for any other record.
C25_OneEventPerLedgerRecord ==
    AllocationHandled =>
        last_notified.notified =
            IF /\ last_notified.record.pool_id = last_notified.record.allocated_pool_id
               /\ last_notified.record.amount > 0
            THEN <<"DEPOSIT_EVENT">>
            ELSE IF /\ last_notified.record.pool_id = last_notified.record.allocated_pool_id
                    /\ last_notified.record.amount < 0
                    /\ IsPending(last_notified.record.status)
            THEN <<"WITHDRAWAL_EVENT">>
            ELSE <<>>

\* C22: every event that entered a handler is optimized, evaluated and published in
\* that order: no handler ends before it has published, and the data of every
\* message queued for publication is the evaluator's output for the optimization
\* result.
C22_OptimizeEvaluatePublish ==
    /\ last_finished.pc \in {"none", "returned"}
    /\ \A i \in 1..Len(processing_queue) :
          "evaluated" \in DOMAIN processing_queue[i].message_data
    /\ last_finished.pc = "returned" =>
          /\ last_finished.opt_result # last_finished.event_data
          /\ last_finished.eval_result = [evaluated |-> last_finished.opt_result]

LedgerEventHandled ==
    /\ last_finished.pc # "none"
    /\ last_finished.event_type \in {"DEPOSIT_EVENT", "WITHDRAWAL_EVENT"}
    /\ eh_services.optimizer_service = "Optimizer"
    /\ inbox = <<>>
    /\ handlers = <<>>

\* C30: once a deposit or withdrawal event of a vault has been handled, and no
\* other record is waiting, the vault's current_allocation in the optimizer equals
\* the reconciliation of the ledger, the entry of the event included.
C30_AllocationFollowsLedger ==
    LedgerEventHandled =>
        /\ last_finished.event_data.pool_id \in RegIds(opt_vaults)
        /\ \A i \in 1..Len(opt_vaults) :
              opt_vaults[i].pool_id = last_finished.event_data.pool_id =>
                  opt_vaults[i].current_allocation
                     = reconcile_entry(ledger, opt_vaults[i]).current_allocation

\* the vaults whose state a pass for the event reads or writes: the vault of a
\* ledger or configuration event, the vaults listing the asset of a market event
TouchedVaults(event_type, event_data) ==
    IF event_type = "NEW_PERFORMANCE_HISTORY_RECORD"
    THEN VaultsListing(opt_vaults, event_data.pool_id)
    ELSE {event_data.pool_id}

-----------------------------------------------------------------------------
(* Registry: configurations handed to Optimizer.update_vault *)

\* configurations of vaults 1 and 2 under either strategy; the same wrapped as
\* {'vault_info': ...}; a configuration without pool_id, bare and wrapped
RegistryVaultInfos ==
    LET plain == [pool_id : {1, 2}, strategy : {"min_risk", "max_sharpe"}]
    IN  plain
        \cup {[vault_info |-> info, current_allocation |-> EmptyAllocation] : info \in plain}
        \cup {[strategy |-> "min_risk"],
              [vault_info |-> [strategy |-> "min_risk"],
               current_allocation |-> EmptyAllocation]}

RegistryAllocationInputs ==
    {1, 2, 3} \X {EmptyAllocation, (PyInt(28) :> <<40, 1>>)}

InitRegistry ==
    /\ supabase_client = TRUE
    /\ abs_vault_info = {}
    /\ ledger = <<>>
    /\ vaults = [v \in {} |-> 0]
    /\ flow_call = NoCall
    /\ flow_result = NoResult
    /\ published = <<>>
    /\ opt_input = [status |-> "none"]
    /\ opt_weights = [status |-> "none"]
    /\ zmq_publisher = "none"
    /\ sink = <<>>
    /\ opt_vaults = <<>>
    /\ market_data = NoMarketData
    /\ opt_call = NoCall
    /\ opt_result = NoResult
    /\ NoEventHandler

NextRegistry ==
    \/ \E vault_info \in RegistryVaultInfos : OptimizerUpdateVault(vault_info)
    \/ \E input \in RegistryAllocationInputs :
          OptimizerUpdateAllocation(input[1], input[2])
    \/ OptimizerReturns

SpecRegistry == InitRegistry /\ [][NextRegistry]_vars

\* the configuration a dict carries: itself, or the vault_info it wraps
ConfigurationOf(vault_info) ==
    IF "pool_id" \notin DOMAIN vault_info /\ "vault_info" \in DOMAIN vault_info
    THEN vault_info.vault_info
    ELSE vault_info

EntriesOf(reg, pool_id) == {reg[i] : i \in {j \in 1..Len(reg) : reg[j].pool_id = pool_id}}

OthersUnchanged(before, after, pool_id) ==
    \A i \in 1..Len(before) : before[i].pool_id # pool_id => after[i] = before[i]

\* C33: update_vault creates the vault with an empty current_allocation on the first
\* configuration for its id; on a later configuration for the id it replaces
\* vault_info and keeps current_allocation; a configuration without a pool_id
\* changes no vault.
C33_UpdateVaultFrame ==
    [][\A vault_info \in RegistryVaultInfos :
          OptimizerUpdateVault(vault_info) =>
             LET configuration == ConfigurationOf(vault_info)
             IN  IF "pool_id" \notin DOMAIN configuration
                 THEN opt_vaults' = opt_vaults
                 ELSE /\ OthersUnchanged(opt_vaults, opt_vaults', configuration.pool_id)
                      /\ RegIds(opt_vaults') = RegIds(opt_vaults) \cup {configuration.pool_id}
                      /\ EntriesOf(opt_vaults', configuration.pool_id) =
                            {[pool_id |-> configuration.pool_id,
                              vault_info |-> configuration,
                              current_allocation |->
                                  AllocationIn(opt_vaults, configuration.pool_id)]}]_vars

-----------------------------------------------------------------------------
(* Fan-out: vaults whose allowed_pools hold vault ids *)

\* vault 1 lists pool 28 and its own id; vault 2 lists pool 29 and vault 1;
\* vault 3 lists pool 28
FanOutVaultInfos ==
    {[pool_id |-> 1, strategy |-> "min_risk", adaptors |-> Adaptor, weight |-> FullCap,
      allowed_pools |-> <<PyInt(28), PyInt(1)>>],
     [pool_id |-> 2, strategy |-> "min_risk", adaptors |-> Adaptor, weight |-> FullCap,
      allowed_pools |-> <<PyInt(29), PyInt(1)>>],
     [pool_id |-> 3, strategy |-> "max_sharpe", adaptors |-> Adaptor, weight |-> FullCap,
      allowed_pools |-> <<PyInt(28)>>]}

\* updates of pools 28 and 29, and of the pool whose id is vault 1's
FanOutMarketRecords ==
    {[pool_id |-> PyInt(28), created_at |-> 1], [pool_id |-> PyInt(29), created_at |-> 1],
     [pool_id |-> PyInt(1), created_at |-> 1]}

NextFanOut ==
    \/ \E vault_info \in FanOutVaultInfos : OptimizerUpdateVault(vault_info)
    \/ \E data \in FanOutMarketRecords : HandleMarketData(data, PyNone)
    \/ OptimizerReturns

SpecFanOut == InitCascade /\ [][NextFanOut]_vars

\* C35: handling one market-data update terminates after a single level of fan-out:
\* the reoptimizations started by the cascade are one per vault whose allowed_pools
\* lists the updated pool, in registry order, and none of them starts a cascade of
\* its own, also when a vault's own id or another vault's id is in some allowed_pools:
\* a vault that lists only a reoptimized vault's id is not reoptimized by the cascade.
C35_SingleLevelFanOut ==
    MarketCall =>
        LET affected_vaults == AffectedVaults(opt_call.before, UpdatedAsset)
        IN  /\ Len(opt_call.results) = Len(affected_vaults)
            /\ Len(opt_call.results) <= Len(opt_call.before)
            /\ \A i \in 1..Len(affected_vaults) :
                   opt_call.results[i].vault = affected_vaults[i]
            /\ \A i \in 1..Len(opt_call.before) :
                   (/\ opt_call.before[i].pool_id \notin SeqToSet(affected_vaults)
                    /\ i # Len(opt_call.before))
                   => opt_vaults[i] = opt_call.before[i]

\* pool 28 is updated while vault 1, which lists 28 and its own id, is registered
\* before vault 2, which lists vault 1 and not 28, and vault 3 is the last entry
C35_Witness ==
    /\ MarketCall
    /\ UpdatedAsset = PyInt(28)
    /\ Len(opt_call.before) = 3
    /\ opt_call.before[1].pool_id = 1
    /\ opt_call.before[2].pool_id = 2
    /\ ListingVaults(opt_call.before, <<1>>) = <<1, 2>>
    /\ Len(opt_call.results) = 2
    /\ opt_vaults[2] = opt_call.before[2]

-----------------------------------------------------------------------------
(* The allocation stored after a matched reallocation *)

\* the cycle returned reallocation_needed true and a summary with status MATCHED
FlowMatched ==
    /\ FlowRegistered
    /\ Get(flow_result, "reallocation_needed", FALSE) = TRUE
    /\ IF "reallocation_summary" \in DOMAIN flow_result.reallocation_result
       THEN flow_result.reallocation_result.reallocation_summary.status = "MATCHED"
       ELSE FALSE

\* C36: after run_reallocation_flow returns reallocation_needed true with a MATCHED
\* result, the Evaluator's stored current_allocation of the vault is the new
\* allocation, so a cycle repeated at once with the same target needs no reallocation.
C36_MatchedResultStoresAllocation ==
    FlowMatched =>
        /\ FlowCurrent = FlowTarget
        /\ Get(evaluate_portfolio(vaults, FlowVault, flow_call.optimization_result),
               "needs_reallocation", FALSE) = FALSE

-----------------------------------------------------------------------------
(* The optimizer service handling the events of the observables *)

\* Optimizer.handle_vault_update(vault_info, market_data): the dict it is given is
\* stored as the vault's vault_info; the keys of self.market_data are strings
handle_vault_update(reg, market, vault_info, market_data_arg, solver) ==
    IF "pool_id" \notin DOMAIN vault_info
    THEN [reg |-> reg, market |-> market, results |-> <<>>, vault |-> 0,
          result |-> [status |-> "error", message |-> "Vault update missing pool_id"]]
    ELSE LET pool_id == vault_info.pool_id
             reg1 == update_vault(reg, vault_info)
         IN  IF market_data_arg # PyNone
             THEN handle_market_data(reg1, market, market_data_arg, vault_info, solver)
             ELSE IF PyInt(pool_id) \in DOMAIN market
             THEN handle_market_data(reg1, market, [pool_id |-> PyInt(pool_id)],
                                     vault_info, solver)
             ELSE [reg |-> reg1, market |-> market, results |-> <<>>, vault |-> 0,
                   result |-> [pool_id |-> pool_id, status |-> "warning",
                               message |-> "Vault updated but no market data available for optimization"]]

\* the call OptimizerInterface makes for the event the observable notifies for the
\* record, run to completion: handle_market_data(event_data) or
\* handle_vault_update(event_data) of the optimizer service (the interface creates
\* the coroutine and does not await it, see HandlerOptimize)
OptimizerHandlesEvent(payload) ==
    /\ opt_call = NoCall
    /\ Notifications(payload) # <<>>
    /\ \E solver \in SolverOutcomes :
        \E notification \in {Notifications(payload)[1]} :
        \E call \in {IF ServiceMethod(notification.event_type) = "handle_market_data"
                      THEN handle_market_data(opt_vaults, market_data,
                                              notification.event_data, PyNone, solver)
                      ELSE handle_vault_update(opt_vaults, market_data,
                                               notification.event_data, PyNone, solver)} :
            /\ opt_vaults' = call.reg
            /\ market_data' = call.market
            /\ opt_call' = [op |-> ServiceMethod(notification.event_type),
                            before |-> opt_vaults, record |-> payload.new,
                            event_type |-> notification.event_type,
                            data |-> notification.event_data, vault_data |-> PyNone,
                            solver |-> solver, results |-> call.results,
                            vault |-> call.vault]
            /\ opt_result' = call.result
    /\ UNCHANGED other_vars

\* configuration records of vault 1 under either strategy, with either pool list
VaultInfoRecords ==
    [pool_id : {1}, strategy : {"min_risk", "max_sharpe"}, adaptors : {Adaptor},
     weight : {FullCap}, allowed_pools : {<<PyInt(28)>>, <<PyInt(28), PyInt(29)>>}]

VaultEventPayloads ==
    {[table |-> "abs_vault_allocation_history", new |-> record] :
        record \in AllocationRecords}
    \cup {[table |-> "abs_vault_info", new |-> record] : record \in VaultInfoRecords}
    \cup {[table |-> "performance_history",
           new |-> [pool_id |-> PyInt(28), created_at |-> 1, apy |-> "num"]]}

\* Optimizer and Evaluator after construction, each with its own empty self.vaults
InitVaultEvents ==
    /\ supabase_client = TRUE
    /\ abs_vault_info = {1}
    /\ ledger = CascadeLedger
    /\ vaults = [v \in {} |-> 0]
    /\ flow_call = NoCall
    /\ flow_result = NoResult
    /\ published = <<>>
    /\ opt_input = [status |-> "none"]
    /\ opt_weights = [status |-> "none"]
    /\ zmq_publisher = "none"
    /\ sink = <<>>
    /\ opt_vaults = <<>>
    /\ market_data = NoMarketData
    /\ opt_call = NoCall
    /\ opt_result = NoResult
    /\ NoEventHandler

NextVaultEvents ==
    \/ OptimizerInitializeVaultInfo
    \/ InitializeVaultInfo
    \/ \E vault_info \in VaultInfoRecords : OptimizerUpdateVault(vault_info)
    \/ \E payload \in VaultEventPayloads : OptimizerHandlesEvent(payload)
    \/ OptimizerReturns

SpecVaultEvents == InitVaultEvents /\ [][NextVaultEvents]_vars

\* the optimizer service has handled an event; the vault the event is about
EventHandled == opt_call # NoCall /\ "event_type" \in DOMAIN opt_call
LedgerEvent == EventHandled /\ opt_call.event_type \in {"DEPOSIT_EVENT", "WITHDRAWAL_EVENT"}
VaultInfoEvent == EventHandled /\ opt_call.event_type = "VAULT_INFO_RECORD"
EventVault == opt_call.record.pool_id
VaultInfoIn(reg, pool_id) == reg[RegIndex(reg, pool_id)].vault_info

C32_ConfigurationReachesOptimizer ==
    VaultInfoEvent =>
        /\ EventVault \in RegIds(opt_vaults)
        /\ Get(VaultInfoIn(opt_vaults, EventVault), "strategy", "min_risk")
              = opt_call.record.strategy
        /\ Get(VaultInfoIn(opt_vaults, EventVault), "allowed_pools", <<>>)
              = opt_call.record.allowed_pools
        /\ Get(VaultInfoIn(opt_vaults, EventVault), "adaptors", <<>>)
              = opt_call.record.adaptors

\* C34: after every handled event the Optimizer and the Evaluator hold the same
\* vaults, each with the same vault_info and the same current_allocation.
C34_OneRegistry ==
    EventHandled =>
        /\ RegIds(opt_vaults) = DOMAIN vaults
        /\ \A v \in DOMAIN vaults :
              /\ VaultInfoIn(opt_vaults, v) = vaults[v].vault_info
              /\ AllocationIn(opt_vaults, v)
                    = ToOptimizerAllocation(vaults[v].current_allocation)

-----------------------------------------------------------------------------
(* Observable: subscribe, unsubscribe, notify *)

ObserverFuncs == {"o1", "o2", "o3"}
ObservedEventTypes == {"DEPOSIT_EVENT", "WITHDRAWAL_EVENT"}
EventDatas == {"d1", "d2"}

Remove(list, x) == SelectSeq(list, LAMBDA y : y # x)

\* Observable.subscribe: the list of the event type is created when missing; the
\* observer is appended unless it is in the list
subscribe(_observers, event_type, observer_func) ==
    LET with_list == IF event_type \in DOMAIN _observers THEN _observers
                     ELSE _observers @@ (event_type :> <<>>)
    IN  IF observer_func \in SeqToSet(with_list[event_type]) THEN with_list
        ELSE [with_list EXCEPT ![event_type] = Append(@, observer_func)]

\* Observable.unsubscribe: list.remove of the observer when it is in the list
unsubscribe(_observers, event_type, observer_func) ==
    IF event_type \in DOMAIN _observers
    THEN IF observer_func \in SeqToSet(_observers[event_type])
         THEN [_observers EXCEPT ![event_type] = Remove(@, observer_func)]
         ELSE _observers
    ELSE _observers

\* the loop of Observable.notify: each observer is called inside try/except; the
\* observers of the set raising raise an exception, which is logged
RECURSIVE NotifyLoop(_, _, _, _)
NotifyLoop(list, event_data, raising, delivered) ==
    IF list = <<>> THEN delivered
    ELSE NotifyLoop(Tail(list), event_data, raising,
                    Append(delivered,
                           [observer |-> Head(list), event_data |-> event_data,
                            outcome |-> IF Head(list) \in raising THEN "raised"
                                        ELSE "returned"]))

\* a loop without the try/except: the first exception leaves it
RECURSIVE NotifyLoopUnprotected(_, _, _, _)
NotifyLoopUnprotected(list, event_data, raising, delivered) ==
    IF list = <<>> THEN delivered
    ELSE IF Head(list) \in raising
    THEN Append(delivered, [observer |-> Head(list), event_data |-> event_data,
                            outcome |-> "raised"])
    ELSE NotifyLoopUnprotected(Tail(list), event_data, raising,
                               Append(delivered,
                                      [observer |-> Head(list), event_data |-> event_data,
                                       outcome |-> "returned"]))

notify_unprotected(_observers, event_type, event_data, raising) ==
    IF event_type \in DOMAIN _observers
    THEN NotifyLoopUnprotected(_observers[event_type], event_data, raising, <<>>)
    ELSE <<>>

\* Observable.notify: the calls of observers it makes, in order
notify(_observers, event_type, event_data, raising) ==
    IF event_type \in DOMAIN _observers
    THEN NotifyLoop(_observers[event_type], event_data, raising, <<>>)
    ELSE <<>>

observable_other_vars ==
    <<supabase_client, abs_vault_info, ledger, vaults, flow_call, flow_result, published,
      opt_input, opt_weights, evaluator_vars, cascade_vars, eh_services, observer, inbox,
      received, handlers, last_notified, last_finished, processing_queue, broker_sent>>

\* ObserverManager.register_observer / Observable.subscribe
Subscribe(event_type, observer_func) ==
    /\ observable' =
          [_observers |-> subscribe(observable._observers, event_type, observer_func),
           call |-> [op |-> "subscribe", event_type |-> event_type,
                     observer |-> observer_func, before |-> observable._observers]]
    /\ UNCHANGED <<observable_other_vars, broker, realtime>>

Unsubscribe(event_type, observer_func) ==
    /\ observable' =
          [_observers |-> unsubscribe(observable._observers, event_type, observer_func),
           call |-> [op |-> "unsubscribe", event_type |-> event_type,
                     observer |-> observer_func, before |-> observable._observers]]
    /\ UNCHANGED <<observable_other_vars, broker, realtime>>

\* Observable.notify for one event; any of the observers may raise
Notify(event_type, event_data) ==
    /\ \E raising \in SUBSET ObserverFuncs :
          observable' =
             [observable EXCEPT !.call =
                 [op |-> "notify", event_type |-> event_type, event_data |-> event_data,
                  raising |-> raising, before |-> observable._observers,
                  delivered |-> notify(observable._observers, event_type, event_data,
                                       raising)]]
    /\ UNCHANGED <<observable_other_vars, broker, realtime>>

NextObservable ==
    \/ \E event_type \in ObservedEventTypes, observer_func \in ObserverFuncs :
          Subscribe(event_type, observer_func)
    \/ \E event_type \in ObservedEventTypes, observer_func \in ObserverFuncs :
          Unsubscribe(event_type, observer_func)
    \/ \E event_type \in ObservedEventTypes, event_data \in EventDatas :
          Notify(event_type, event_data)

SpecObservable == InitRegistry /\ [][NextObservable]_vars

\* the observers subscribed to an event type, in subscription order
SubscribedTo(_observers, event_type) == Get(_observers, event_type, <<>>)

NoDuplicates(list) == \A i, j \in 1..Len(list) : list[i] = list[j] => i = j

\* C40: notify calls each observer subscribed to the event type exactly once with
\* the event, in subscription order, also after an observer has raised; subscribing
\* an observer again registers it once and keeps its place; an unsubscribed
\* observer is not in the list and is not called.
C40_EachObserverOnceInOrder ==
    /\ \A event_type \in DOMAIN observable._observers :
          NoDuplicates(observable._observers[event_type])
    /\ observable.call.op = "notify" =>
          LET list == SubscribedTo(observable.call.before, observable.call.event_type)
              delivered == observable.call.delivered
          IN  /\ Len(delivered) = Len(list)
              /\ \A i \in 1..Len(list) :
                    /\ delivered[i].observer = list[i]
                    /\ delivered[i].event_data = observable.call.event_data
    /\ observable.call.op = "subscribe" =>
          LET before == SubscribedTo(observable.call.before, observable.call.event_type)
              after == SubscribedTo(observable._observers, observable.call.event_type)
          IN  after = IF observable.call.observer \in SeqToSet(before) THEN before
                      ELSE Append(before, observable.call.observer)
    /\ observable.call.op = "unsubscribe" =>
          LET before == SubscribedTo(observable.call.before, observable.call.event_type)
              after == SubscribedTo(observable._observers, observable.call.event_type)
          IN  /\ observable.call.observer \notin SeqToSet(after)
              /\ after = Remove(before, observable.call.observer)

\* two observers are subscribed, the first of them raises and the second is
\* called all the same; an observer subscribed to the other event type only is not called
C40_Witness ==
    /\ observable.call.op = "notify"
    /\ Len(observable.call.delivered) = 2
    /\ observable.call.delivered[1].outcome = "raised"
    /\ observable.call.delivered[2].outcome = "returned"
    /\ \E other \in DOMAIN observable._observers :
          /\ other # observable.call.event_type
          /\ \E o \in SeqToSet(observable._observers[other]) :
                o \notin SeqToSet(SubscribedTo(observable.call.before,
                                               observable.call.event_type))

-----------------------------------------------------------------------------
(* MessageBroker: start, stop, publish, and the worker threads *)

MaxMessages == 3
MaxThreads == 2

\* the callbacks handed to publish: each returns or raises an exception
CallbackLists == {<<>>, <<"returns">>, <<"raises", "returns">>}

\* the loop over callbacks in _process_queue: each call is inside try/except, so
\* every callback is called whatever the ones before it did
RunCallbacks(callbacks) == [i \in 1..Len(callbacks) |-> [called |-> i, outcome |-> callbacks[i]]]

\* "if self.zmq_enabled and self.zmq_publisher": _publish_via_zmq catches what
\* send_multipart raises
PublishViaZmq(zmq) ==
    IF zmq = "disabled" THEN "skipped" ELSE IF zmq = "failing" THEN "failed" ELSE "sent"

broker_other_vars == <<observable_other_vars, observable, realtime>>

\* MessageBroker.start
BrokerStart ==
    /\ ~broker.joining
    /\ IF broker.is_running
       THEN broker' = [broker EXCEPT !.call = "start"]
       ELSE /\ Len(broker.workers) < MaxThreads
            /\ broker' = [broker EXCEPT !.is_running = TRUE,
                                        !.workers = Append(@, [pc |-> "check"]),
                                        !.worker_thread = Len(broker.workers) + 1,
                                        !.started_at = broker.published,
                                        !.call = "start"]
    /\ UNCHANGED broker_other_vars

\* MessageBroker.stop up to worker_thread.join(timeout=5.0)
BrokerStop ==
    /\ ~broker.joining
    /\ IF ~broker.is_running
       THEN broker' = [broker EXCEPT !.call = "stop"]
       ELSE broker' = [broker EXCEPT !.is_running = FALSE,
                                    !.joining = (broker.worker_thread # 0),
                                    !.call = "stop"]
    /\ UNCHANGED broker_other_vars

\* join returns: the worker thread has ended, or 5 seconds have passed while it is
\* still inside a callback or a send (a worker waiting in get wakes after 1 second
\* and ends); stop does not look at which of the two happened
BrokerJoinReturns ==
    /\ broker.joining
    /\ broker.workers[broker.worker_thread].pc \in {"ended", "process"}
    /\ broker' = [broker EXCEPT !.joining = FALSE]
    /\ UNCHANGED broker_other_vars

\* MessageBroker.publish: the message is put on the queue
BrokerPublish(callbacks) ==
    /\ broker.published < MaxMessages
    /\ broker' = [broker EXCEPT !.published = @ + 1,
                                !.processing_queue =
                                    Append(@, [id |-> broker.published + 1,
                                               callbacks |-> callbacks]),
                                !.call = "publish"]
    /\ UNCHANGED broker_other_vars

\* _process_queue, "while self.is_running": the thread goes on or ends
WorkerCheck(w) ==
    /\ broker.workers[w].pc = "check"
    /\ broker' = [broker EXCEPT !.workers[w] =
                      [pc |-> IF broker.is_running THEN "get" ELSE "ended"]]
    /\ UNCHANGED broker_other_vars

\* processing_queue.get(timeout=1.0): a message is taken, or queue.Empty is raised
\* and the loop continues
WorkerGet(w) ==
    /\ broker.workers[w].pc = "get"
    /\ IF broker.processing_queue # <<>>
       THEN broker' = [broker EXCEPT !.processing_queue = Tail(@),
                                    !.workers[w] =
                                        [pc |-> "process",
                                         message |-> Head(broker.processing_queue)]]
       ELSE broker' = [broker EXCEPT !.workers[w] = [pc |-> "check"]]
    /\ UNCHANGED broker_other_vars

\* the callbacks, the ZeroMQ publication, task_done
WorkerProcess(w) ==
    /\ broker.workers[w].pc = "process"
    /\ broker' = [broker EXCEPT
                     !.log = Append(@, [id |-> broker.workers[w].message.id,
                                        callbacks |-> broker.workers[w].message.callbacks,
                                        called |-> RunCallbacks(
                                                     broker.workers[w].message.callbacks),
                                        zmq |-> PublishViaZmq(broker.zmq),
                                        worker |-> w]),
                     !.workers[w] = [pc |-> "check"]]
    /\ UNCHANGED broker_other_vars

\* MessageBroker.__init__: ZeroMQ disabled, or enabled with a publisher whose send
\* works or raises
InitBroker ==
    /\ supabase_client = TRUE
    /\ abs_vault_info = {}
    /\ ledger = <<>>
    /\ vaults = [v \in {} |-> 0]
    /\ flow_call = NoCall
    /\ flow_result = NoResult
    /\ published = <<>>
    /\ opt_input = [status |-> "none"]
    /\ opt_weights = [status |-> "none"]
    /\ zmq_publisher = "none"
    /\ sink = <<>>
    /\ opt_vaults = <<>>
    /\ market_data = NoMarketData
    /\ opt_call = NoCall
    /\ opt_result = NoResult
    /\ eh_services = [optimizer_service |-> "None", evaluator_service |-> "None",
                      zmq_enabled |-> FALSE]
    /\ observer = "none"
    /\ inbox = <<>>
    /\ received = 0
    /\ handlers = <<>>
    /\ last_notified = [table |-> "none"]
    /\ last_finished = [pc |-> "none"]
    /\ processing_queue = <<>>
    /\ broker_sent = [topic |-> "none"]
    /\ observable = [_observers |-> [e \in {} |-> <<>>], call |-> [op |-> "none"]]
    /\ realtime = [is_running |-> FALSE, starts |-> 0, channels |-> <<>>,
                   subscribed |-> {}, call |-> [op |-> "none"]]
    /\ \E zmq \in {"disabled", "ok", "failing"} :
          broker = [zmq |-> zmq, is_running |-> FALSE, processing_queue |-> <<>>,
                    workers |-> <<>>, worker_thread |-> 0, joining |-> FALSE,
                    published |-> 0, started_at |-> 0, log |-> <<>>, call |-> "none"]

NextBroker ==
    \/ BrokerStart
    \/ BrokerStop
    \/ BrokerJoinReturns
    \/ \E callbacks \in CallbackLists : BrokerPublish(callbacks)
    \/ \E w \in 1..Len(broker.workers) : WorkerCheck(w)
    \/ \E w \in 1..Len(broker.workers) : WorkerGet(w)
    \/ \E w \in 1..Len(broker.workers) : WorkerProcess(w)

SpecBroker == InitBroker /\ [][NextBroker]_vars

\* every thread that was started gets to run
SpecBrokerLive ==
    /\ SpecBroker
    /\ \A w \in 1..MaxThreads :
          /\ WF_vars(w <= Len(broker.workers) /\ WorkerCheck(w))
          /\ WF_vars(w <= Len(broker.workers) /\ WorkerGet(w))
          /\ WF_vars(w <= Len(broker.workers) /\ WorkerProcess(w))

\* the worker threads inside the loop body: waiting in get or processing a message
Consumers ==
    {w \in 1..Len(broker.workers) : broker.workers[w].pc \in {"get", "process"}}

\* C38: after any sequence of start() and stop() at most one worker thread consumes
\* the queue; start() while running and stop() while stopped change nothing; after
\* stop() and start() the previous worker does not consume next to the new one.
C38_AtMostOneWorker ==
    [][/\ (BrokerStart /\ broker.is_running) => broker' = [broker EXCEPT !.call = "start"]
       /\ (BrokerStop /\ ~broker.is_running) => broker' = [broker EXCEPT !.call = "stop"]
       /\ Cardinality(Consumers') <= 1]_vars

LoggedIds == {broker.log[i].id : i \in 1..Len(broker.log)}

\* no message is processed twice, each is processed with all its callbacks called
\* and then the ZeroMQ step, and while the broker is running the messages published
\* since it was started are processed in publication order
ProcessedInOrder ==
    \A i \in 1..Len(broker.log) :
        /\ Len(broker.log[i].called) = Len(broker.log[i].callbacks)
        /\ broker.zmq # "disabled" => broker.log[i].zmq # "skipped"
        /\ \A j \in 1..Len(broker.log) :
              /\ broker.log[i].id = broker.log[j].id => i = j
              /\ (broker.is_running /\ i < j /\ broker.log[i].id > broker.started_at
                                      /\ broker.log[j].id > broker.started_at)
                 => broker.log[i].id < broker.log[j].id

\* C37: every message passed to publish while the broker keeps running is
\* eventually taken from the queue and processed exactly once (all its callbacks,
\* also after one of them raised, then ZeroMQ when enabled), and messages are
\* processed in publication order.
C37_EveryMessageProcessedInOrder ==
    /\ []ProcessedInOrder
    /\ \A k \in 1..MaxMessages :
          []((broker.published >= k /\ []broker.is_running) => <>(k \in LoggedIds))

-----------------------------------------------------------------------------
(* Observer: start and stop of the realtime channels *)

\* the keys of Observer.channels, in the order start creates them
ChannelNames ==
    <<"performance_history", "allocation_history", "vault_info_insert", "vault_info_update">>

MaxStarts == 3

\* what can go wrong inside the try block: nothing, or the k-th call of
\* supabase_client.channel() raises, or the k-th call of channel.subscribe() /
\* channel.unsubscribe() raises
FailurePoints ==
    {[at |-> "none", k |-> 0]}
    \cup [at : {"channel", "subscribe"}, k : 1..Len(ChannelNames)]

\* the channel objects start number n creates: one per name
NewChannels(n) == [i \in 1..Len(ChannelNames) |-> [name |-> ChannelNames[i], created_by |-> n]]

FirstChannels(channels, n) == {channels[i] : i \in 1..n}

\* self.channels[name] = channel for the first n new channels: an entry of the
\* same name is replaced, in place
Assigned(channels, new_channels, n) ==
    [i \in 1..(IF n > Len(channels) THEN n ELSE Len(channels)) |->
        IF i <= n THEN new_channels[i] ELSE channels[i]]

realtime_other_vars == <<observable_other_vars, observable, broker>>

\* is_running, the channel table and the subscriptions of the Observer
Listening(r) ==
    [is_running |-> r.is_running, channels |-> r.channels, subscribed |-> r.subscribed]

\* Observer.start: the four channels are created and registered, then subscribed
\* one after the other; an exception sets is_running back to False and is re-raised
ObserverStart(failure) ==
    /\ IF realtime.is_running
       THEN realtime' = [realtime EXCEPT !.call = [op |-> "start", was_running |-> TRUE,
                                                   outcome |-> "returned",
                                                   before |-> Listening(realtime)]]
       ELSE /\ realtime.starts < MaxStarts
            /\ \E new_channels \in {NewChannels(realtime.starts + 1)} :
                  realtime' =
                     IF failure.at = "none"
                     THEN [is_running |-> TRUE, starts |-> realtime.starts + 1,
                           channels |-> new_channels,
                           subscribed |-> realtime.subscribed \cup SeqToSet(new_channels),
                           call |-> [op |-> "start", was_running |-> FALSE,
                                     outcome |-> "returned"]]
                     ELSE IF failure.at = "channel"
                     THEN [is_running |-> FALSE, starts |-> realtime.starts + 1,
                           channels |-> Assigned(realtime.channels, new_channels,
                                                 failure.k - 1),
                           subscribed |-> realtime.subscribed,
                           call |-> [op |-> "start", was_running |-> FALSE,
                                     outcome |-> "raised"]]
                     ELSE [is_running |-> FALSE, starts |-> realtime.starts + 1,
                           channels |-> new_channels,
                           subscribed |-> realtime.subscribed
                                            \cup FirstChannels(new_channels, failure.k - 1),
                           call |-> [op |-> "start", was_running |-> FALSE,
                                     outcome |-> "raised"]]
    /\ UNCHANGED realtime_other_vars

\* Observer.stop: every channel of the table is unsubscribed, then the table is
\* emptied and is_running set to False; an exception is re-raised where it happens
ObserverStop(failure) ==
    /\ failure.at # "channel"
    /\ realtime' =
          IF ~realtime.is_running
          THEN [realtime EXCEPT !.call = [op |-> "stop", was_running |-> FALSE,
                                          outcome |-> "returned",
                                          before |-> Listening(realtime)]]
          ELSE IF failure.at = "none"
          THEN [realtime EXCEPT
                   !.is_running = FALSE, !.channels = <<>>,
                   !.subscribed = @ \ SeqToSet(realtime.channels),
                   !.call = [op |-> "stop", was_running |-> TRUE, outcome |-> "returned"]]
          ELSE [realtime EXCEPT
                   !.subscribed = @ \ FirstChannels(realtime.channels, failure.k - 1),
                   !.call = [op |-> "stop", was_running |-> TRUE, outcome |-> "raised"]]
    /\ UNCHANGED realtime_other_vars

NextObserver ==
    \/ \E failure \in FailurePoints : ObserverStart(failure)
    \/ \E failure \in FailurePoints : ObserverStop(failure)

SpecObserver == InitRegistry /\ [][NextObserver]_vars

\* C39: whenever is_running is false no realtime channel is subscribed; start()
\* while running and stop() while not running change nothing; a stop() that
\* succeeds unsubscribes every channel and empties the channel table; a start()
\* that fails part-way leaves no channel subscribed.
C39_StoppedMeansUnsubscribed ==
    /\ ~realtime.is_running => realtime.subscribed = {}
    /\ (realtime.call.op = "start" /\ realtime.call.was_running) =>
          Listening(realtime) = realtime.call.before
    /\ (realtime.call.op = "stop" /\ ~realtime.call.was_running) =>
          Listening(realtime) = realtime.call.before
    /\ (realtime.call.op = "stop" /\ realtime.call.was_running
                                  /\ realtime.call.outcome = "returned") =>
          (realtime.subscribed = {} /\ realtime.channels = <<>>)
    /\ (realtime.call.op = "start" /\ realtime.call.outcome = "raised") =>
          realtime.subscribed = {}

====
